---- MODULE Spec2Model ----
(***************************************************************************)
(* Model of the table-structure checker of apergos/misc-wmf-crap           *)
(* (src/runqueries/check_table_structures.py and queries/dbinfo.py):       *)
(* the canonical description of a table (flatten_one_wiki), the grouping   *)
(* of hosts and wikis by description (HostWikiGroups), the diff routines   *)
(* (TableDiffs.display_*_diffs) and the two report loops                   *)
(* (display_diffs_master_per_sect, display_diffs_master_all_sects).        *)
(*                                                                         *)
(* Python values are modelled as follows.                                  *)
(*   dict (insertion ordered)  a sequence of <<key, value>> pairs with     *)
(*                             distinct keys                               *)
(*   list                      a sequence                                  *)
(*   None                      the string NoneVal                          *)
(*   {} for a table            the record Absent                           *)
(*   a parameter line          the sequence of its whitespace-separated    *)
(*                             entries, each entry the sequence of its     *)
(*                             '='-separated fields (what split() and      *)
(*                             split('=') return)                          *)
(*   an uncaught exception     err = TRUE in the result of the routine;    *)
(*                             pc = "crashed" in the report loops          *)
(*   print(...)                one record appended to the output sequence  *)
(***************************************************************************)
EXTENDS Integers, Sequences, FiniteSets, TLC

VARIABLES
    \* ---- args
    dryrun,              \* args['dryrun']
    \* ---- inputs and results of the diff and flatten routines
    sql_results,         \* the server's answers for the two tables
    master_table_info,   \* table info of the baseline table
    repl_table_info,     \* table info of the target table
    table_descr,         \* <<flatten of master, flatten of replica>>
    column_report,       \* result of display_column_diffs
    key_report,          \* result of display_key_diffs
    parameter_report,    \* result of display_parameter_diffs
    table_report,        \* result of display_table_diffs
    fpc,                 \* position in the chain of routine calls
    \* ---- state of the report loops (display_diffs)
    topo,                \* db section configuration held by DbInfo
    table_info_per_dbhost_wiki,   \* the collected matrix
    table_descr_by_host_wiki,     \* its flattened descriptions
    main_master,         \* --master, or NoneVal
    main_wiki,           \* --main_wiki, or NoneVal
    pc,                  \* position in display_diffs
    masters_left,        \* masters not yet iterated
    section_master,      \* current master of the outer loop
    wikis_left,          \* wikis of the current master not yet iterated
    wiki,                \* current wiki
    todo_idx,            \* index into dbhosts_todo of the next host
    grouped_dbhosts,     \* wiki -> groups of hosts (dict descr -> list)
    grouped_wikis,       \* host -> groups of wikis (dict descr -> list)
    dbhosts_done,        \* hosts covered for the current wiki
    wikis_done,          \* host -> reference to a list held by grouped_wikis
    diffed,              \* the calls of display_wikidb_diff, in order
    skipped,             \* <<dbhost, wiki>> passed over, dbhost not main_master
    \* ---- state of the collection (show_tables_for_wikis)
    server,              \* what the database servers answer in this run
    gpc,                 \* position in do_main / show_tables_for_wikis
    dbhosts_left,        \* hosts of args['dbhosts'] not yet iterated
    this_dbhost,         \* current host
    wikis_todo_left,     \* wikis of the current host not yet iterated
    dbcursor,            \* the cursor of the current host
    cursors,             \* hosts with a connection opened and cursor not closed
    queries,             \* <<host, query>> executed on a server
    \* ---- state of the SHOW EXPLAIN tool (explain_sql_query.py)
    xpc,                 \* position of the main thread in QueryInfo.run
    work_idx,            \* index in run_order of the current query
    thread_id,           \* server thread id of the current query's connection
    workers,             \* state of every worker thread started, in order
    processlist,         \* ids of the threads the server lists
    killed,              \* ids of the threads the server was told to kill
    steps                \* the statements the main thread has sent, in order

fnvars == <<sql_results, master_table_info, repl_table_info, table_descr, column_report,
            key_report, parameter_report, table_report, fpc>>

loopvars == <<topo, table_info_per_dbhost_wiki, table_descr_by_host_wiki,
              main_master, main_wiki, pc,
              masters_left, section_master, wikis_left, wiki, todo_idx,
              grouped_dbhosts, grouped_wikis, dbhosts_done, wikis_done,
              diffed, skipped>>

getvars == <<server, gpc, dbhosts_left, this_dbhost, wikis_todo_left, dbcursor,
             cursors, queries>>

explainvars == <<xpc, work_idx, thread_id, workers, processlist, killed, steps>>

vars == <<dryrun, fnvars, loopvars, getvars, explainvars>>

(***************************************************************************)
(* Bounds of the model.                                                    *)
(***************************************************************************)
MaxCols == 2

(***************************************************************************)
(* Python values.                                                          *)
(***************************************************************************)
NoneVal == "<None>"

Absent == [present |-> FALSE]

Range(s) == {s[i] : i \in 1..Len(s)}

\* ---- dict: sequence of <<key, value>> with distinct keys
DictKeys(d) == [i \in 1..Len(d) |-> d[i][1]]

DictHas(d, k) == \E i \in 1..Len(d) : d[i][1] = k

DictGet(d, k) == d[CHOOSE i \in 1..Len(d) : d[i][1] = k][2]

\* d[k] = v: an existing key keeps its position
DictSet(d, k, v) ==
    IF DictHas(d, k)
    THEN [i \in 1..Len(d) |-> IF d[i][1] = k THEN <<k, v>> ELSE d[i]]
    ELSE Append(d, <<k, v>>)

\* d.pop(k, None)
DictPop(d, k) == SelectSeq(d, LAMBDA e : e[1] # k)

\* x in list
InList(x, l) == \E i \in 1..Len(l) : l[i] = x

(***************************************************************************)
(* String order used by json.dumps(sort_keys=True): code point order of    *)
(* the dict keys that occur in the model.                                  *)
(***************************************************************************)
Alphabet == <<"AUTO_INCREMENT", "AVG_ROW_LENGTH", "CHARSET", "DEFAULT",
              "ENGINE", "ROW_FORMAT", "extra", "id", "name", "page">>

\* the items of dict d in sorted key order
SortedItems(d) ==
    LET F[i \in 0..Len(Alphabet)] ==
            IF i = 0 THEN <<>>
            ELSE IF DictHas(d, Alphabet[i])
                 THEN Append(F[i-1], <<Alphabet[i], DictGet(d, Alphabet[i])>>)
                 ELSE F[i-1]
    IN F[Len(Alphabet)]

(***************************************************************************)
(* args['params_ignore'], from the configuration defaults.                 *)
(***************************************************************************)
params_ignore == <<"AUTO_INCREMENT", "DEFAULT", "AVG_ROW_LENGTH">>

(***************************************************************************)
(* TableDiffs.params_to_dict                                               *)
(***************************************************************************)
params_to_dict(text) ==
    LET F[i \in 0..Len(text)] ==
            IF i = 0 THEN <<>>
            ELSE LET fields == text[i]
                     val == IF Len(fields) > 1 THEN fields[2] ELSE NoneVal
                 IN DictSet(F[i-1], fields[1], val)
    IN F[Len(text)]

(***************************************************************************)
(* TableGetter.flatten_one_wiki: the description of one wiki's tables.     *)
(* table_info is the dict table -> table info.  The result of json.dumps   *)
(* with sort_keys is modelled by the sorted item sequences it writes; the  *)
(* list of keys is written in list order.  err is the IndexError raised by *)
(* parameters[0] on an empty list.                                         *)
(***************************************************************************)
PopAll(d, ignores) ==
    LET F[i \in 0..Len(ignores)] ==
            IF i = 0 THEN d ELSE DictPop(F[i-1], ignores[i])
    IN F[Len(ignores)]

flatten_one_table(info, ignores) ==
    IF ~info.present
    THEN [present |-> FALSE]
    ELSE [present    |-> TRUE,
          columns    |-> SortedItems(info.columns),
          keys       |-> info.keys,
          parameters |-> SortedItems(PopAll(params_to_dict(info.parameters[1]),
                                            ignores)),
          table      |-> info.table]

flatten_one_wiki_unsorted(table_info, ignores) ==
    IF \E i \in 1..Len(table_info) :
           table_info[i][2].present /\ table_info[i][2].parameters = <<>>
    THEN [err |-> TRUE, json |-> <<>>]
    ELSE [err  |-> FALSE,
          json |-> [i \in 1..Len(table_info) |->
                       <<table_info[i][1],
                         IF ~table_info[i][2].present
                         THEN [present |-> FALSE]
                         ELSE [present    |-> TRUE,
                               columns    |-> table_info[i][2].columns,
                               keys       |-> table_info[i][2].keys,
                               parameters |-> PopAll(params_to_dict(
                                   table_info[i][2].parameters[1]), ignores),
                               table      |-> table_info[i][2].table]>>]]

flatten_one_wiki(table_info, ignores) ==
    IF \E i \in 1..Len(table_info) :
           table_info[i][2].present /\ table_info[i][2].parameters = <<>>
    THEN [err |-> TRUE, json |-> <<>>]
    ELSE [err  |-> FALSE,
          json |-> SortedItems([i \in 1..Len(table_info) |->
                       <<table_info[i][1],
                         flatten_one_table(table_info[i][2], ignores)>>])]

(***************************************************************************)
(* Findings: one record per print() of the diff routines.                  *)
(***************************************************************************)
Finding(kind, names, vals) == [kind |-> kind, names |-> names, vals |-> vals]

NotRun == [out |-> <<>>, err |-> FALSE]

LastKey(d) == d[Len(d)][1]

(***************************************************************************)
(* TableDiffs.display_column_diffs.  After the three loops the variable    *)
(* column holds the last column iterated; the comparison that follows the  *)
(* loops raises KeyError when that column is not on both sides and         *)
(* UnboundLocalError when no loop ran.                                     *)
(***************************************************************************)
ColumnsMissing(m, r) ==
    SelectSeq(DictKeys(m.columns), LAMBDA c : ~DictHas(r.columns, c))

\* a column diff without the loop over the replica's columns
NoColumnsExtra(m, r) == <<>>

ColumnsExtra(m, r) ==
    SelectSeq(DictKeys(r.columns), LAMBDA c : ~DictHas(m.columns, c))

display_column_diffs(m, r) ==
    LET missing == ColumnsMissing(m, r)
        extra   == ColumnsExtra(m, r)
        bound   == Len(m.columns) > 0 \/ Len(r.columns) > 0
        column  == IF Len(m.columns) > 0 THEN LastKey(m.columns)
                   ELSE LastKey(r.columns)
        raises  == ~bound \/ ~DictHas(m.columns, column)
                          \/ ~DictHas(r.columns, column)
        found   == [i \in 1..Len(missing) |->
                       Finding("column_missing", <<missing[i]>>, <<>>)]
                   \o [i \in 1..Len(extra) |->
                       Finding("column_extra", <<extra[i]>>, <<>>)]
    IN IF raises
       THEN [out |-> found, err |-> TRUE]
       ELSE IF DictGet(m.columns, column) # DictGet(r.columns, column)
            THEN [out |-> Append(found,
                              Finding("column_mismatch", <<column>>,
                                      <<<<DictGet(r.columns, column)>>>>)),
                  err |-> FALSE]
            ELSE [out |-> found, err |-> FALSE]

\* display_key_diffs with each of its two loops run from the last key back
display_key_diffs_from_last(m, r) ==
    LET missing == SelectSeq(m.keys, LAMBDA k : ~InList(k, r.keys))
        extra   == SelectSeq(r.keys, LAMBDA k : ~InList(k, m.keys))
    IN [out |-> [i \in 1..Len(missing) |->
                    Finding("key_missing",
                            <<missing[Len(missing) + 1 - i]>>, <<>>)]
                \o [i \in 1..Len(extra) |->
                    Finding("key_extra", <<extra[Len(extra) + 1 - i]>>, <<>>)],
        err |-> FALSE]

(***************************************************************************)
(* TableDiffs.display_key_diffs                                            *)
(***************************************************************************)
display_key_diffs(m, r) ==
    LET missing == SelectSeq(m.keys, LAMBDA k : ~InList(k, r.keys))
        extra   == SelectSeq(r.keys, LAMBDA k : ~InList(k, m.keys))
    IN [out |-> [i \in 1..Len(missing) |->
                    Finding("key_missing", <<missing[i]>>, <<>>)]
                \o [i \in 1..Len(extra) |->
                    Finding("key_extra", <<extra[i]>>, <<>>)],
        err |-> FALSE]

(***************************************************************************)
(* TableDiffs.display_parameter_diffs.  ignore is args['params_ignore']    *)
(* in runqueries and the fixed list ['AUTO_INCREMENT', 'DEFAULT'] in       *)
(* checktables, where it only suppresses value differences.                *)
(***************************************************************************)
ParamFindings(missing, extra, diffs, mp, rp) ==
    (IF missing # <<>> THEN <<Finding("params_missing", missing, <<>>)>>
     ELSE <<>>)
    \o (IF extra # <<>> THEN <<Finding("params_extra", extra, <<>>)>>
        ELSE <<>>)
    \o (IF diffs # <<>>
        THEN <<Finding("param_diffs", diffs,
                       [i \in 1..Len(diffs) |->
                           <<DictGet(mp, diffs[i]), DictGet(rp, diffs[i])>>])>>
        ELSE <<>>)

display_parameter_diffs_no_ignore(m, r) ==
    IF m.parameters = <<>> \/ r.parameters = <<>>
    THEN [out |-> <<>>, err |-> TRUE]
    ELSE IF m.parameters[1] = r.parameters[1]
    THEN [out |-> <<>>, err |-> FALSE]
    ELSE LET mp == params_to_dict(m.parameters[1])
             rp == params_to_dict(r.parameters[1])
             missing == SelectSeq(DictKeys(mp), LAMBDA f : ~DictHas(rp, f))
             diffs   == SelectSeq(DictKeys(mp),
                            LAMBDA f : /\ DictHas(rp, f)
                                       /\ DictGet(mp, f) # DictGet(rp, f))
             extra   == SelectSeq(DictKeys(rp), LAMBDA f : ~DictHas(mp, f))
         IN [out |-> ParamFindings(missing, extra, diffs, mp, rp),
             err |-> FALSE]

display_parameter_diffs(m, r) ==
    IF m.parameters = <<>> \/ r.parameters = <<>>
    THEN [out |-> <<>>, err |-> TRUE]
    ELSE IF m.parameters[1] = r.parameters[1]
    THEN [out |-> <<>>, err |-> FALSE]
    ELSE LET mp == params_to_dict(m.parameters[1])
             rp == params_to_dict(r.parameters[1])
             missing == SelectSeq(DictKeys(mp),
                            LAMBDA f : /\ ~InList(f, params_ignore)
                                       /\ ~DictHas(rp, f))
             diffs   == SelectSeq(DictKeys(mp),
                            LAMBDA f : /\ ~InList(f, params_ignore)
                                       /\ DictHas(rp, f)
                                       /\ DictGet(mp, f) # DictGet(rp, f))
             extra   == SelectSeq(DictKeys(rp),
                            LAMBDA f : /\ ~InList(f, params_ignore)
                                       /\ ~DictHas(mp, f))
         IN [out |-> ParamFindings(missing, extra, diffs, mp, rp),
             err |-> FALSE]

ignore_checktables == <<"AUTO_INCREMENT", "DEFAULT">>

display_parameter_diffs_checktables(m, r) ==
    IF m.parameters = <<>> \/ r.parameters = <<>>
    THEN [out |-> <<>>, err |-> TRUE]
    ELSE IF m.parameters[1] = r.parameters[1]
    THEN [out |-> <<>>, err |-> FALSE]
    ELSE LET mp == params_to_dict(m.parameters[1])
             rp == params_to_dict(r.parameters[1])
             missing == SelectSeq(DictKeys(mp), LAMBDA f : ~DictHas(rp, f))
             diffs   == SelectSeq(DictKeys(mp),
                            LAMBDA f : /\ DictHas(rp, f)
                                       /\ DictGet(mp, f) # DictGet(rp, f)
                                       /\ ~InList(f, ignore_checktables))
             extra   == SelectSeq(DictKeys(rp), LAMBDA f : ~DictHas(mp, f))
         IN [out |-> ParamFindings(missing, extra, diffs, mp, rp),
             err |-> FALSE]

\* display_table_diffs with the two 'missing' reports exchanged
display_table_diffs_exchanged(m, r) ==
    IF ~m.present
    THEN IF r.present
         THEN [out |-> <<Finding("missing_on_replica", <<>>, <<>>)>>,
               err |-> FALSE]
         ELSE [out |-> <<>>, err |-> FALSE]
    ELSE IF ~r.present
    THEN [out |-> <<Finding("missing_on_master", <<>>, <<>>)>>, err |-> FALSE]
    ELSE LET c == display_column_diffs(m, r)
             k == display_key_diffs(m, r)
             p == display_parameter_diffs(m, r)
         IN IF c.err THEN c
            ELSE IF k.err THEN [out |-> c.out \o k.out, err |-> TRUE]
            ELSE [out |-> c.out \o k.out \o p.out, err |-> p.err]

(***************************************************************************)
(* TableDiffs.display_table_diffs                                          *)
(***************************************************************************)
display_table_diffs(m, r) ==
    IF ~m.present
    THEN IF r.present
         THEN [out |-> <<Finding("missing_on_master", <<>>, <<>>)>>,
               err |-> FALSE]
         ELSE [out |-> <<>>, err |-> FALSE]
    ELSE IF ~r.present
    THEN [out |-> <<Finding("missing_on_replica", <<>>, <<>>)>>, err |-> FALSE]
    ELSE LET c == display_column_diffs(m, r)
             k == display_key_diffs(m, r)
             p == display_parameter_diffs(m, r)
         IN IF c.err THEN c
            ELSE IF k.err THEN [out |-> c.out \o k.out, err |-> TRUE]
            ELSE [out |-> c.out \o k.out \o p.out, err |-> p.err]

(***************************************************************************)
(* Table infos as format_create_table_info builds them from the lines of   *)
(* a SHOW CREATE TABLE result: the columns in line order, the lines with   *)
(* 'KEY ' in line order, the lines starting with ')'.                      *)
(***************************************************************************)
TableInfo(table, columns, keys, parameters) ==
    [present |-> TRUE, table |-> table, columns |-> columns, keys |-> keys,
     parameters |-> parameters]

ColNames == {"id", "name", "extra"}

Props == {"int(10)", "varbinary(255)"}

RECURSIVE InjSeqs(_, _)
InjSeqs(S, n) ==
    IF n = 0 THEN {<<>>}
    ELSE LET shorter == InjSeqs(S, n - 1)
         IN shorter \cup
            UNION {{Append(q, x) : x \in S \ Range(q)} :
                       q \in {t \in shorter : Len(t) = n - 1}}

\* every ordered dict of at most MaxCols columns
ColumnDicts ==
    UNION {{[i \in 1..Len(ns) |-> <<ns[i], ps[i]>>] :
                ps \in [1..Len(ns) -> Props]} : ns \in InjSeqs(ColNames, MaxCols)}

PrimaryKey == "PRIMARY KEY (id)"

NameKey == "KEY name (name)"

KeyLists == {<<>>, <<PrimaryKey>>, <<PrimaryKey, NameKey>>,
             <<NameKey, PrimaryKey>>}

\* ) ENGINE=InnoDB AUTO_INCREMENT=<n> DEFAULT CHARSET=binary
ParamLine(auto_increment) ==
    <<<<"ENGINE", "InnoDB">>, <<"AUTO_INCREMENT", auto_increment>>,
      <<"DEFAULT">>, <<"CHARSET", "binary">>>>

ParamLines ==
    {ParamLine("5"), ParamLine("900"),
     <<<<"ENGINE", "InnoDB">>, <<"DEFAULT">>, <<"CHARSET", "binary">>>>,
     <<<<"ENGINE", "InnoDB">>, <<"AUTO_INCREMENT", "5">>, <<"DEFAULT">>,
       <<"CHARSET", "utf8">>>>,
     <<<<"AUTO_INCREMENT", "5">>, <<"ENGINE", "InnoDB">>, <<"DEFAULT">>,
       <<"CHARSET", "binary">>>>,
     <<<<"ENGINE", "InnoDB">>, <<"DEFAULT">>, <<"CHARSET", "binary">>,
       <<"ROW_FORMAT", "COMPRESSED">>>>}

BaseColumns == <<<<"id", "int(10)">>, <<"name", "varbinary(255)">>>>

\* the table infos the routines are run on
TableInfos ==
    {TableInfo("page", c, <<PrimaryKey>>, <<ParamLine(n)>>) :
         c \in ColumnDicts, n \in {"5", "900"}}
    \cup {TableInfo("page", BaseColumns, k, <<p>>) :
              k \in KeyLists, p \in ParamLines}
    \cup {TableInfo("page", c, k, <<>>) :
              c \in {<<>>, BaseColumns}, k \in {<<>>, <<PrimaryKey>>}}
    \cup {Absent}

(***************************************************************************)
(* The answers of a server and the routines that fetch one table.  A       *)
(* SHOW CREATE TABLE answer is the sequence of the lines of the statement: *)
(*   [kind |-> "create_table", name]   CREATE TABLE `name` (               *)
(*   [kind |-> "create_view", name]    CREATE ALGORITHM=... VIEW `name` AS *)
(*   [kind |-> "column", name, text]   `name` text,                        *)
(*   [kind |-> "key", text]            a line with 'KEY ' in it            *)
(*   [kind |-> "close", entries]       a line starting with ')'            *)
(***************************************************************************)
CreateLines(first, info) ==
    <<[kind |-> first, name |-> info.table]>>
    \o [i \in 1..Len(info.columns) |->
           [kind |-> "column", name |-> info.columns[i][1],
            text |-> info.columns[i][2]]]
    \o [i \in 1..Len(info.keys) |-> [kind |-> "key", text |-> info.keys[i]]]
    \o [i \in 1..Len(info.parameters) |->
           [kind |-> "close", entries |-> info.parameters[i]]]

\* format_create_table_info without the test of the first line
format_create_table_info_any_first_line(sql_results_rows) ==
    LET lines == sql_results_rows[1][2]
        cols  == SelectSeq(lines, LAMBDA l : l.kind = "column")
        keys  == SelectSeq(lines, LAMBDA l : l.kind = "key")
        pars  == SelectSeq(lines, LAMBDA l : l.kind = "close")
        C[i \in 0..Len(cols)] ==
            IF i = 0 THEN <<>>
            ELSE DictSet(C[i-1], cols[i].name, cols[i].text)
    IN TableInfo(lines[1].name, C[Len(cols)],
                 [i \in 1..Len(keys) |-> keys[i].text],
                 [i \in 1..Len(pars) |-> pars[i].entries])

\* TableGetter.format_create_table_info on the rows of one answer
format_create_table_info(sql_results_rows) ==
    LET lines == sql_results_rows[1][2]
        cols  == SelectSeq(lines, LAMBDA l : l.kind = "column")
        keys  == SelectSeq(lines, LAMBDA l : l.kind = "key")
        pars  == SelectSeq(lines, LAMBDA l : l.kind = "close")
        C[i \in 0..Len(cols)] ==
            IF i = 0 THEN <<>>
            ELSE DictSet(C[i-1], cols[i].name, cols[i].text)
    IN IF lines[1].kind # "create_table"
       THEN Absent
       ELSE TableInfo(lines[1].name, C[Len(cols)],
                      [i \in 1..Len(keys) |-> keys[i].text],
                      [i \in 1..Len(pars) |-> pars[i].entries])

\* what a server answers to the two queries for one table: whether each
\* query raises MySQLdb.Error, and the rows it returns otherwise
TableAnswer(exists_error, exists_rows, create_error, create_rows) ==
    [exists_error |-> exists_error, exists_rows |-> exists_rows,
     create_error |-> create_error, create_rows |-> create_rows]

NoAnswer == TableAnswer(FALSE, <<>>, FALSE, <<>>)

TableAnswers ==
    {TableAnswer(FALSE, <<<<"page">>>>, FALSE,
                 <<<<"page", CreateLines("create_table", info)>>>>) :
         info \in TableInfos \ {Absent}}
    \cup {TableAnswer(FALSE, <<<<"page">>>>, FALSE,
                      <<<<"page", CreateLines("create_view", info)>>>>) :
              info \in {TableInfo("page", BaseColumns, <<PrimaryKey>>,
                                  <<ParamLine("5")>>),
                        TableInfo("page", <<>>, <<>>, <<>>)}}
    \cup {NoAnswer,
          TableAnswer(TRUE, <<>>, FALSE, <<>>),
          TableAnswer(FALSE, <<<<"page">>>>, TRUE, <<>>),
          TableAnswer(FALSE, <<<<"page">>>>, FALSE, <<>>)}

\* TableGetter.run_table_query: None on dryrun or error, else the rows
run_table_query(is_dryrun, error, rows) ==
    IF is_dryrun \/ error THEN [none |-> TRUE, rows |-> <<>>]
    ELSE [none |-> FALSE, rows |-> rows]

\* TableGetter.table_exists: None for no result, else bool(result)
table_exists(is_dryrun, answer) ==
    LET result == run_table_query(is_dryrun, answer.exists_error,
                                  answer.exists_rows)
    IN ~result.none /\ result.rows # <<>>

get_show_create_table(is_dryrun, answer) ==
    IF ~table_exists(is_dryrun, answer) THEN Absent
    ELSE LET results == run_table_query(is_dryrun, answer.create_error,
                                        answer.create_rows)
         IN IF results.none \/ results.rows = <<>> THEN Absent
            ELSE format_create_table_info(results.rows)

(***************************************************************************)
(* The routines run on a pair of table infos.                              *)
(***************************************************************************)
OneTable(info) == <<<<"page", info>>>>

BothPresent == master_table_info.present /\ repl_table_info.present

FnInit ==
    /\ dryrun \in BOOLEAN
    /\ sql_results \in IF dryrun THEN {<<NoAnswer, NoAnswer>>}
                       ELSE TableAnswers \X TableAnswers
    /\ master_table_info = Absent
    /\ repl_table_info = Absent
    /\ table_descr = <<>>
    /\ column_report = NotRun
    /\ key_report = NotRun
    /\ parameter_report = NotRun
    /\ table_report = NotRun
    /\ fpc = "answers"

\* get_show_create_table for the table on the master and on the replica
GetShowCreateTable ==
    /\ fpc = "answers"
    /\ master_table_info' = get_show_create_table(dryrun, sql_results[1])
    /\ repl_table_info' = get_show_create_table(dryrun, sql_results[2])
    /\ fpc' = "input"
    /\ UNCHANGED <<sql_results, table_descr, column_report, key_report,
                   parameter_report, table_report>>
    /\ UNCHANGED <<dryrun, loopvars, getvars, explainvars>>

Flatten ==
    /\ fpc = "input"
    /\ table_descr' =
           <<flatten_one_wiki(OneTable(master_table_info), params_ignore),
             flatten_one_wiki(OneTable(repl_table_info), params_ignore)>>
    /\ fpc' = "flattened"
    /\ UNCHANGED <<sql_results, master_table_info, repl_table_info, column_report,
                   key_report, parameter_report, table_report>>
    /\ UNCHANGED <<dryrun, loopvars, getvars, explainvars>>

DisplayColumnDiffs ==
    /\ fpc = "flattened"
    /\ BothPresent
    /\ column_report' = display_column_diffs(master_table_info, repl_table_info)
    /\ fpc' = "columns"
    /\ UNCHANGED <<sql_results, master_table_info, repl_table_info, table_descr,
                   key_report, parameter_report, table_report>>
    /\ UNCHANGED <<dryrun, loopvars, getvars, explainvars>>

DisplayKeyDiffs ==
    /\ fpc = "columns"
    /\ key_report' = display_key_diffs(master_table_info, repl_table_info)
    /\ fpc' = "keys"
    /\ UNCHANGED <<sql_results, master_table_info, repl_table_info, table_descr,
                   column_report, parameter_report, table_report>>
    /\ UNCHANGED <<dryrun, loopvars, getvars, explainvars>>

DisplayParameterDiffs ==
    /\ fpc = "keys"
    /\ parameter_report' =
           [runqueries  |-> display_parameter_diffs(master_table_info,
                                                    repl_table_info),
            checktables |-> display_parameter_diffs_checktables(
                                master_table_info, repl_table_info)]
    /\ fpc' = "parameters"
    /\ UNCHANGED <<sql_results, master_table_info, repl_table_info, table_descr,
                   column_report, key_report, table_report>>
    /\ UNCHANGED <<dryrun, loopvars, getvars, explainvars>>

DisplayTableDiffs ==
    /\ \/ fpc = "parameters"
       \/ fpc = "flattened" /\ ~BothPresent
    /\ table_report' = display_table_diffs(master_table_info, repl_table_info)
    /\ fpc' = "done"
    /\ UNCHANGED <<sql_results, master_table_info, repl_table_info, table_descr,
                   column_report, key_report, parameter_report>>
    /\ UNCHANGED <<dryrun, loopvars, getvars, explainvars>>

FnNext ==
    \/ GetShowCreateTable
    \/ Flatten
    \/ DisplayColumnDiffs
    \/ DisplayKeyDiffs
    \/ DisplayParameterDiffs
    \/ DisplayTableDiffs

(***************************************************************************)
(* TableGetter.flatten_table_info: description of every collected cell.    *)
(***************************************************************************)
flatten_table_info(table_info, ignores) ==
    [i \in 1..Len(table_info) |->
        <<table_info[i][1],
          [j \in 1..Len(table_info[i][2]) |->
              <<table_info[i][2][j][1],
                flatten_one_wiki(table_info[i][2][j][2], ignores).json>>]>>]

\* host in d and wiki in d[host]
HasCell(d, host, w) == DictHas(d, host) /\ DictHas(DictGet(d, host), w)

Cell(d, host, w) == DictGet(DictGet(d, host), w)

(***************************************************************************)
(* HostWikiGroups.  Groups are dicts description -> list of members.       *)
(***************************************************************************)
AddToGroup(groups, descr, member) ==
    IF ~DictHas(groups, descr)
    THEN DictSet(groups, descr, <<member>>)
    ELSE DictSet(groups, descr, Append(DictGet(groups, descr), member))

get_grouped_hosts_one_wiki_all_listed(descrs, dbhosts, w) ==
    LET F[i \in 0..Len(dbhosts)] ==
            IF i = 0 THEN <<>>
            ELSE AddToGroup(F[i-1],
                            IF HasCell(descrs, dbhosts[i], w)
                            THEN Cell(descrs, dbhosts[i], w) ELSE <<>>,
                            dbhosts[i])
    IN F[Len(dbhosts)]

get_grouped_hosts_one_wiki(descrs, dbhosts, w) ==
    LET F[i \in 0..Len(dbhosts)] ==
            IF i = 0 THEN <<>>
            ELSE IF HasCell(descrs, dbhosts[i], w)
                 THEN AddToGroup(F[i-1], Cell(descrs, dbhosts[i], w), dbhosts[i])
                 ELSE F[i-1]
    IN F[Len(dbhosts)]

group_hosts_across_wikis(descrs, dbhosts, wikis) ==
    LET F[i \in 0..Len(wikis)] ==
            IF i = 0 THEN <<>>
            ELSE DictSet(F[i-1], wikis[i],
                         get_grouped_hosts_one_wiki(descrs, dbhosts, wikis[i]))
    IN F[Len(wikis)]

\* dbhosts = <<>> and w = NoneVal stand for the omitted arguments
get_grouped_dbhosts(descrs, dbhosts, w) ==
    LET hosts == IF dbhosts = <<>> THEN DictKeys(descrs) ELSE dbhosts
        W[i \in 0..Len(hosts)] ==
            IF i = 0 THEN <<>>
            ELSE W[i-1] \o (IF DictHas(descrs, hosts[i])
                            THEN DictKeys(DictGet(descrs, hosts[i]))
                            ELSE <<>>)
    IN IF w = NoneVal
       THEN group_hosts_across_wikis(descrs, hosts, W[Len(hosts)])
       ELSE group_hosts_across_wikis(descrs, hosts, <<w>>)

get_groups_for_wikis(table_descr_by_wiki) ==
    LET F[i \in 0..Len(table_descr_by_wiki)] ==
            IF i = 0 THEN <<>>
            ELSE AddToGroup(F[i-1], table_descr_by_wiki[i][2],
                            table_descr_by_wiki[i][1])
    IN F[Len(table_descr_by_wiki)]

get_grouped_wikis(descrs) ==
    [i \in 1..Len(descrs) |->
        <<descrs[i][1], get_groups_for_wikis(descrs[i][2])>>]

\* <<index of the first group that lists the member>>, or <<>> if none does
MatchingGroup(member, groups) ==
    IF \E i \in 1..Len(groups) : InList(member, groups[i][2])
    THEN LET i == CHOOSE k \in 1..Len(groups) :
                      /\ InList(member, groups[k][2])
                      /\ \A l \in 1..(k-1) : ~InList(member, groups[l][2])
         IN <<i>>
    ELSE <<>>

get_matching_hosts(host, hosts_by_result) ==
    LET g == MatchingGroup(host, hosts_by_result)
    IN IF g = <<>> THEN <<>> ELSE hosts_by_result[g[1]][2]

(***************************************************************************)
(* get_matching_wikis returns the list object held by the groups, not a    *)
(* copy: the result is the reference <<dbhost, index of the group>> into   *)
(* grouped_wikis (<<>> for the fresh empty list).                          *)
(***************************************************************************)
get_matching_wikis(w, dbhost, groups_by_host) ==
    LET g == MatchingGroup(w, DictGet(groups_by_host, dbhost))
    IN IF g = <<>> THEN <<>> ELSE <<dbhost, g[1]>>

Deref(groups_by_host, ref) ==
    IF ref = <<>> THEN <<>>
    ELSE DictGet(groups_by_host, ref[1])[ref[2]][2]

\* list.extend on the list object behind ref
ExtendRef(groups_by_host, ref, more) ==
    [i \in 1..Len(groups_by_host) |->
        IF groups_by_host[i][1] # ref[1] THEN groups_by_host[i]
        ELSE <<groups_by_host[i][1],
               [j \in 1..Len(groups_by_host[i][2]) |->
                   IF j # ref[2] THEN groups_by_host[i][2][j]
                   ELSE <<groups_by_host[i][2][j][1],
                          groups_by_host[i][2][j][2] \o more>>]>>]

(***************************************************************************)
(* DbInfo (queries/dbinfo.py).  topo holds args['dbhosts'],                *)
(* wikis_to_sections (dict wiki -> section) and dbhosts_by_section (dict   *)
(* section -> hosts in configured order).  list(set(...)) is taken in the  *)
(* order of the list it is built from, except for the masters of the       *)
(* all-sections loop, whose order is chosen freely.                        *)
(***************************************************************************)
wikilist == <<"A", "B">>

is_master(t, dbhost) ==
    IF t.dbhosts_by_section = <<>> THEN TRUE
    ELSE \/ \E i \in 1..Len(t.dbhosts_by_section) :
                dbhost = t.dbhosts_by_section[i][2][1]
         \/ ~\E i \in 1..Len(t.dbhosts_by_section) :
                InList(dbhost, t.dbhosts_by_section[i][2])

get_masters(t) == SelectSeq(t.dbhosts, LAMBDA h : is_master(t, h))

get_dbhosts_for_wiki(t, w) ==
    IF t.wikis_to_sections = <<>> \/ t.dbhosts_by_section = <<>>
    THEN t.dbhosts
    ELSE LET section == IF DictHas(t.wikis_to_sections, w)
                        THEN DictGet(t.wikis_to_sections, w) ELSE "DEFAULT"
         IN IF DictHas(t.dbhosts_by_section, section)
            THEN DictGet(t.dbhosts_by_section, section)
            ELSE <<>>

get_wikis_for_section(t, section, wikis) ==
    IF section = "DEFAULT"
    THEN SelectSeq(wikis, LAMBDA w : ~DictHas(t.wikis_to_sections, w))
    ELSE SelectSeq(wikis, LAMBDA w : /\ DictHas(t.wikis_to_sections, w)
                                     /\ DictGet(t.wikis_to_sections, w) = section)

get_wikis_for_dbhost(t, dbhost, wikis) ==
    IF t.wikis_to_sections = <<>> \/ t.dbhosts_by_section = <<>>
    THEN wikis
    ELSE SelectSeq(wikis,
             LAMBDA w : \E i \in 1..Len(t.dbhosts_by_section) :
                 /\ InList(dbhost, t.dbhosts_by_section[i][2])
                 /\ InList(w, get_wikis_for_section(
                                  t, t.dbhosts_by_section[i][1], wikis)))

(***************************************************************************)
(* The configurations and matrices the report loops are run on.            *)
(***************************************************************************)
Topologies ==
    {[dbhosts |-> <<"h1", "h2">>,
      wikis_to_sections |-> <<>>,
      dbhosts_by_section |-> <<>>],
     [dbhosts |-> <<"h1", "h2", "h3">>,
      wikis_to_sections |-> <<<<"A", "s1">>, <<"B", "s1">>>>,
      dbhosts_by_section |-> <<<<"s1", <<"h1", "h2", "h3">>>>>>],
     [dbhosts |-> <<"h1", "h2", "h3">>,
      wikis_to_sections |-> <<<<"A", "s1">>, <<"B", "s2">>>>,
      dbhosts_by_section |-> <<<<"s1", <<"h1", "h2">>>>,
                               <<"s2", <<"h3", "h2">>>>>>],
     [dbhosts |-> <<"h1", "h2">>,
      wikis_to_sections |-> <<<<"A", "s2">>, <<"B", "s1">>>>,
      dbhosts_by_section |-> <<<<"s1", <<"h1", "h2">>>>,
                               <<"s2", <<"h2", "h1">>>>>>]}

Hosts == {"h1", "h2", "h3"}

Wikis == Range(wikilist)

ExtraColumns == Append(BaseColumns, <<"extra", "int(10)">>)

\* the table infos of the cells: a baseline layout, the same layout with
\* another AUTO_INCREMENT, and a layout with one more column
CellInfos ==
    {TableInfo("page", BaseColumns, <<PrimaryKey>>, <<ParamLine("5")>>),
     TableInfo("page", BaseColumns, <<PrimaryKey>>, <<ParamLine("900")>>),
     TableInfo("page", ExtraColumns, <<PrimaryKey>>, <<ParamLine("5")>>)}

\* most hosts whose connection could not be opened during collection
MaxDown == 1

\* the matrix show_tables_for_wikis builds: a host with wikis to check has
\* an entry, which stays empty when its connection could not be opened
Matrix(t, down, info) ==
    LET hosts == SelectSeq(t.dbhosts,
                     LAMBDA h : get_wikis_for_dbhost(t, h, wikilist) # <<>>)
    IN [i \in 1..Len(hosts) |->
           <<hosts[i],
             IF hosts[i] \in down THEN <<>>
             ELSE LET ws == get_wikis_for_dbhost(t, hosts[i], wikilist)
                  IN [j \in 1..Len(ws) |->
                         <<ws[j], OneTable(info[hosts[i]][ws[j]])>>]>>]

MainChoices == {<<NoneVal, NoneVal>>, <<"h1", "A">>, <<"h2", "B">>}

Orders(S) == {q \in InjSeqs(S, Cardinality(S)) : Len(q) = Cardinality(S)}

(***************************************************************************)
(* TableDiffs.display_wikidb_diff for self.dbhost = dbhost.  The result    *)
(* holds the findings printed and whether an exception left the routine.   *)
(***************************************************************************)
TableFindings(master_tables, repl_tables) ==
    LET common == SelectSeq(DictKeys(master_tables),
                      LAMBDA tb : DictHas(repl_tables, tb))
        F[i \in 0..Len(common)] ==
            IF i = 0 THEN [out |-> <<>>, err |-> FALSE]
            ELSE IF F[i-1].err THEN F[i-1]
            ELSE LET d == display_table_diffs(DictGet(master_tables, common[i]),
                                              DictGet(repl_tables, common[i]))
                 IN [out |-> F[i-1].out \o d.out, err |-> d.err]
        missing == SelectSeq(DictKeys(master_tables),
                       LAMBDA tb : ~DictHas(repl_tables, tb))
        extra   == SelectSeq(DictKeys(repl_tables),
                       LAMBDA tb : ~DictHas(master_tables, tb))
    IN [out |-> [i \in 1..Len(missing) |->
                    Finding("table_missing", <<missing[i]>>, <<>>)]
                \o [i \in 1..Len(extra) |->
                    Finding("table_extra", <<extra[i]>>, <<>>)]
                \o F[Len(common)].out,
        err |-> F[Len(common)].err]

display_wikidb_diff(table_info, dbhost, w, master, master_wiki) ==
    IF ~HasCell(table_info, dbhost, w)
    THEN [out |-> <<Finding("no_tables", <<dbhost>>, <<>>)>>, err |-> FALSE]
    ELSE IF master_wiki # NoneVal
    THEN IF ~HasCell(table_info, master, master_wiki)
         THEN [out |-> <<Finding("no_diffs_available", <<master>>, <<>>)>>,
               err |-> FALSE]
         ELSE TableFindings(Cell(table_info, master, master_wiki),
                            Cell(table_info, dbhost, w))
    ELSE IF ~HasCell(table_info, master, w)
         THEN [out |-> <<>>, err |-> TRUE]
         ELSE TableFindings(Cell(table_info, master, w),
                            Cell(table_info, dbhost, w))

(***************************************************************************)
(* TableDiffs.display_diffs and the two report loops.                      *)
(***************************************************************************)
LoopInit ==
    /\ topo \in Topologies
    /\ \E down \in SUBSET Hosts :
           /\ Cardinality(down) <= MaxDown
           /\ table_info_per_dbhost_wiki \in
                  {Matrix(topo, down, info) :
                       info \in [Hosts -> [Wikis -> CellInfos]]}
    /\ table_descr_by_host_wiki =
           flatten_table_info(table_info_per_dbhost_wiki, params_ignore)
    /\ \E mc \in MainChoices : main_master = mc[1] /\ main_wiki = mc[2]
    /\ pc = "start"
    /\ masters_left = <<>>
    /\ section_master = NoneVal
    /\ wikis_left = <<>>
    /\ wiki = NoneVal
    /\ todo_idx = 0
    /\ grouped_dbhosts = <<>>
    /\ grouped_wikis = <<>>
    /\ dbhosts_done = <<>>
    /\ wikis_done = <<>>
    /\ diffed = <<>>
    /\ skipped = {}

\* the test 'if main_master' of display_diffs: None and '' are false
Truthy(v) == v # NoneVal /\ v # ""

\* display_diffs with main_master unset: display_diffs_master_per_sect
\* up to its loop over the masters
DisplayDiffsPerSect ==
    /\ pc = "start"
    /\ ~Truthy(main_master)
    /\ masters_left' = get_masters(topo)
    /\ pc' = "sect_masters"
    /\ UNCHANGED <<topo, table_info_per_dbhost_wiki,
                   table_descr_by_host_wiki, main_master, main_wiki,
                   section_master, wikis_left, wiki, todo_idx, grouped_dbhosts,
                   grouped_wikis, dbhosts_done, wikis_done, diffed, skipped>>
    /\ UNCHANGED <<dryrun, fnvars, getvars, explainvars>>

\* one iteration of the loop over the masters.  For the first wiki of a
\* master the argument of the log call, " ".join(...) over dict values,
\* raises TypeError before any host of the wiki is looked at.
PerSectMaster ==
    /\ pc = "sect_masters"
    /\ masters_left # <<>>
    /\ LET master == Head(masters_left)
           wikis_todo == get_wikis_for_dbhost(topo, master, wikilist)
           master_wikis == DictKeys(DictGet(table_info_per_dbhost_wiki, master))
       IN /\ section_master' = master
          /\ masters_left' = Tail(masters_left)
          /\ IF wikis_todo = <<>> \/ master_wikis = <<>>
             THEN UNCHANGED <<pc, wiki, grouped_dbhosts>>
             ELSE /\ wiki' = Head(master_wikis)
                  /\ grouped_dbhosts' =
                         get_grouped_dbhosts(
                             table_descr_by_host_wiki,
                             get_dbhosts_for_wiki(topo, Head(master_wikis)),
                             Head(master_wikis))
                  /\ pc' = "crashed"
    /\ UNCHANGED <<topo, table_info_per_dbhost_wiki,
                   table_descr_by_host_wiki, main_master, main_wiki,
                   wikis_left, todo_idx, grouped_wikis, dbhosts_done,
                   wikis_done, diffed, skipped>>
    /\ UNCHANGED <<dryrun, fnvars, getvars, explainvars>>

PerSectEnd ==
    /\ pc = "sect_masters"
    /\ masters_left = <<>>
    /\ pc' = "done"
    /\ UNCHANGED <<topo, table_info_per_dbhost_wiki,
                   table_descr_by_host_wiki, main_master, main_wiki,
                   masters_left, section_master, wikis_left, wiki, todo_idx,
                   grouped_dbhosts, grouped_wikis, dbhosts_done, wikis_done,
                   diffed, skipped>>
    /\ UNCHANGED <<dryrun, fnvars, getvars, explainvars>>

\* display_diffs with main_master set: display_diffs_master_all_sects up
\* to its loop over the masters, which are taken from a set
DisplayDiffsAllSects ==
    /\ pc = "start"
    /\ Truthy(main_master)
    /\ LET master_results ==
               IF DictHas(table_info_per_dbhost_wiki, main_master)
               THEN DictGet(table_info_per_dbhost_wiki, main_master)
               ELSE <<>>
       IN IF master_results # <<>> /\ ~DictHas(master_results, main_wiki)
          THEN /\ pc' = "crashed"
               /\ UNCHANGED <<grouped_wikis, masters_left>>
          ELSE /\ grouped_wikis' = get_grouped_wikis(table_descr_by_host_wiki)
               /\ masters_left' \in Orders(Range(get_masters(topo)))
               /\ pc' = "masters"
    /\ UNCHANGED <<topo, table_info_per_dbhost_wiki,
                   table_descr_by_host_wiki, main_master, main_wiki,
                   section_master, wikis_left, wiki, todo_idx, grouped_dbhosts,
                   dbhosts_done, wikis_done, diffed, skipped>>
    /\ UNCHANGED <<dryrun, fnvars, getvars, explainvars>>

\* next section master; one without collected wikis is passed over
AllSectsMaster ==
    /\ pc = "masters"
    /\ masters_left # <<>>
    /\ section_master' = Head(masters_left)
    /\ masters_left' = Tail(masters_left)
    /\ IF ~DictHas(table_info_per_dbhost_wiki, Head(masters_left))
       THEN UNCHANGED <<pc, grouped_dbhosts, wikis_left>>
       ELSE /\ grouped_dbhosts' =
                   get_grouped_dbhosts(table_descr_by_host_wiki, <<>>, NoneVal)
            /\ wikis_left' =
                   DictKeys(DictGet(table_info_per_dbhost_wiki, Head(masters_left)))
            /\ pc' = "wikis"
    /\ UNCHANGED <<topo, table_info_per_dbhost_wiki,
                   table_descr_by_host_wiki, main_master, main_wiki,
                   wiki, todo_idx, grouped_wikis, dbhosts_done, wikis_done,
                   diffed, skipped>>
    /\ UNCHANGED <<dryrun, fnvars, getvars, explainvars>>

AllSectsEnd ==
    /\ pc = "masters"
    /\ masters_left = <<>>
    /\ pc' = "done"
    /\ UNCHANGED <<topo, table_info_per_dbhost_wiki,
                   table_descr_by_host_wiki, main_master, main_wiki,
                   masters_left, section_master, wikis_left, wiki, todo_idx,
                   grouped_dbhosts, grouped_wikis, dbhosts_done, wikis_done,
                   diffed, skipped>>
    /\ UNCHANGED <<dryrun, fnvars, getvars, explainvars>>

\* the tests that pass over a host in both loops over dbhosts_todo
InWikisDone(dbhost, w) ==
    /\ DictHas(wikis_done, dbhost)
    /\ InList(w, Deref(grouped_wikis, DictGet(wikis_done, dbhost)))

PassedOver(dbhost, w, hosts_done) ==
    \/ InList(dbhost, hosts_done)
    \/ dbhost = main_master
    \/ InWikisDone(dbhost, w)

\* next wiki of the section master and the first loop over its hosts,
\* which displays table_info_per_dbhost_wiki[dbhost][wiki] of every host
\* not passed over (KeyError when the host has no such entry)
AllSectsWiki ==
    /\ pc = "wikis"
    /\ wikis_left # <<>>
    /\ wiki' = Head(wikis_left)
    /\ wikis_left' = Tail(wikis_left)
    /\ dbhosts_done' = <<>>
    /\ LET todo == get_dbhosts_for_wiki(topo, Head(wikis_left))
       IN IF \E i \in 1..Len(todo) :
                 /\ ~PassedOver(todo[i], Head(wikis_left), <<>>)
                 /\ ~HasCell(table_info_per_dbhost_wiki, todo[i], Head(wikis_left))
          THEN pc' = "crashed" /\ UNCHANGED todo_idx
          ELSE pc' = "hosts" /\ todo_idx' = 1
    /\ UNCHANGED <<topo, table_info_per_dbhost_wiki,
                   table_descr_by_host_wiki, main_master, main_wiki,
                   masters_left, section_master, grouped_dbhosts, grouped_wikis,
                   wikis_done, diffed, skipped>>
    /\ UNCHANGED <<dryrun, fnvars, getvars, explainvars>>

AllSectsWikisEnd ==
    /\ pc = "wikis"
    /\ wikis_left = <<>>
    /\ pc' = "masters"
    /\ UNCHANGED <<topo, table_info_per_dbhost_wiki,
                   table_descr_by_host_wiki, main_master, main_wiki,
                   masters_left, section_master, wikis_left, wiki, todo_idx,
                   grouped_dbhosts, grouped_wikis, dbhosts_done, wikis_done,
                   diffed, skipped>>
    /\ UNCHANGED <<dryrun, fnvars, getvars, explainvars>>

dbhosts_todo == get_dbhosts_for_wiki(topo, wiki)

\* second loop: a host passed over ("skipping")
AllSectsSkip ==
    /\ pc = "hosts"
    /\ todo_idx <= Len(dbhosts_todo)
    /\ PassedOver(dbhosts_todo[todo_idx], wiki, dbhosts_done)
    /\ skipped' = IF dbhosts_todo[todo_idx] = main_master THEN skipped
                  ELSE skipped \cup {<<dbhosts_todo[todo_idx], wiki>>}
    /\ todo_idx' = todo_idx + 1
    /\ UNCHANGED <<topo, table_info_per_dbhost_wiki,
                   table_descr_by_host_wiki, main_master, main_wiki,
                   pc, masters_left, section_master, wikis_left, wiki,
                   grouped_dbhosts, grouped_wikis, dbhosts_done, wikis_done,
                   diffed>>
    /\ UNCHANGED <<dryrun, fnvars, getvars, explainvars>>

\* the loop over same_result_hosts: wikis_done[host] becomes the list
\* object same_result_wikis, or the list it already refers to is extended
MarkWikisDone(same_result_hosts, ref) ==
    LET F[i \in 0..Len(same_result_hosts)] ==
            IF i = 0 THEN [done |-> wikis_done, lists |-> grouped_wikis]
            ELSE LET h == same_result_hosts[i]
                     st == F[i-1]
                 IN IF ~DictHas(st.done, h)
                    THEN [done |-> DictSet(st.done, h, ref), lists |-> st.lists]
                    ELSE [done  |-> st.done,
                          lists |-> ExtendRef(st.lists, DictGet(st.done, h),
                                              Deref(st.lists, ref))]
    IN F[Len(same_result_hosts)]

\* second loop: a host whose tables are diffed against the main master
AllSectsDiff ==
    /\ pc = "hosts"
    /\ todo_idx <= Len(dbhosts_todo)
    /\ ~PassedOver(dbhosts_todo[todo_idx], wiki, dbhosts_done)
    /\ LET dbhost == dbhosts_todo[todo_idx]
           same_result_hosts ==
               get_matching_hosts(dbhost, DictGet(grouped_dbhosts, wiki))
           same_result_wikis == get_matching_wikis(wiki, dbhost, grouped_wikis)
           marked == MarkWikisDone(same_result_hosts, same_result_wikis)
           report == display_wikidb_diff(table_info_per_dbhost_wiki, dbhost,
                                         wiki, main_master, main_wiki)
       IN /\ wikis_done' = marked.done
          /\ grouped_wikis' = marked.lists
          /\ dbhosts_done' = dbhosts_done \o same_result_hosts
          /\ diffed' = Append(diffed, [dbhost |-> dbhost, wiki |-> wiki,
                                       master |-> main_master,
                                       master_wiki |-> main_wiki,
                                       report |-> report])
          /\ IF report.err
             THEN pc' = "crashed" /\ UNCHANGED todo_idx
             ELSE pc' = pc /\ todo_idx' = todo_idx + 1
    /\ UNCHANGED <<topo, table_info_per_dbhost_wiki,
                   table_descr_by_host_wiki, main_master, main_wiki,
                   masters_left, section_master, wikis_left, wiki,
                   grouped_dbhosts, skipped>>
    /\ UNCHANGED <<dryrun, fnvars, getvars, explainvars>>

AllSectsHostsEnd ==
    /\ pc = "hosts"
    /\ todo_idx > Len(dbhosts_todo)
    /\ pc' = "wikis"
    /\ UNCHANGED <<topo, table_info_per_dbhost_wiki,
                   table_descr_by_host_wiki, main_master, main_wiki,
                   masters_left, section_master, wikis_left, wiki, todo_idx,
                   grouped_dbhosts, grouped_wikis, dbhosts_done, wikis_done,
                   diffed, skipped>>
    /\ UNCHANGED <<dryrun, fnvars, getvars, explainvars>>

LoopNext ==
    \/ DisplayDiffsPerSect
    \/ PerSectMaster
    \/ PerSectEnd
    \/ DisplayDiffsAllSects
    \/ AllSectsMaster
    \/ AllSectsEnd
    \/ AllSectsWiki
    \/ AllSectsWikisEnd
    \/ AllSectsSkip
    \/ AllSectsDiff
    \/ AllSectsHostsEnd

(***************************************************************************)
(* The collection: setup_args, do_main and                                 *)
(* TableGetter.show_tables_for_wikis.  Python values that are passed to    *)
(* do_use_wiki carry their type, since the routine is called with a wiki   *)
(* name in the place of the cursor and the cursor in the place of the      *)
(* wiki name.                                                              *)
(***************************************************************************)
PyStr(text) == [type |-> "str", val |-> text]

PyCursor(dbhost) == [type |-> "Cursor", val |-> dbhost]

PyNone == [type |-> "NoneType", val |-> NoneVal]

\* what cursor.execute of a USE query does on the server: it succeeds,
\* fails with error 1049 (unknown database), or fails with another error
UseOutcomes == {"ok", "1049", "2013"}

\* DbInfo.do_use_wiki(cursor, wiki, lost_conn_ok).  ret is the returned
\* value ("True", "False", "None"), raised the exception that leaves the
\* routine, executed whether the query was sent to the server
do_use_wiki(cursor, wiki_arg, lost_conn_ok, is_dryrun, outcome) ==
    IF wiki_arg.type # "str"
    THEN [raised |-> "TypeError", ret |-> "", executed |-> FALSE]
    ELSE IF is_dryrun
    THEN [raised |-> "", ret |-> "False", executed |-> FALSE]
    ELSE IF cursor.type # "Cursor"
    THEN [raised |-> "AttributeError", ret |-> "", executed |-> FALSE]
    ELSE IF outcome = "ok"
    THEN [raised |-> "", ret |-> "True", executed |-> TRUE]
    ELSE IF lost_conn_ok /\ outcome = "1049"
    THEN [raised |-> "", ret |-> "None", executed |-> TRUE]
    ELSE [raised |-> "UnboundLocalError", ret |-> "", executed |-> TRUE]

\* the queries get_show_create_table sends for one table
TableQueries(is_dryrun, answer) ==
    IF is_dryrun THEN {}
    ELSE IF table_exists(is_dryrun, answer)
    THEN {"SHOW TABLES LIKE", "SHOW CREATE TABLE"}
    ELSE {"SHOW TABLES LIKE"}

\* TableGetter.check_tables(wiki, dbcursor) for args['tables'] = ['page']:
\* the tables collected for the wiki, or the exception that leaves it
check_tables(w, cursor, is_dryrun, outcome, answer) ==
    LET use == do_use_wiki(PyStr(w), cursor, TRUE, is_dryrun, outcome)
        sent == IF use.executed THEN {"USE"} ELSE {}
    IN IF use.raised # ""
       THEN [raised |-> use.raised, tables |-> <<>>, queries |-> sent]
       ELSE IF use.ret = "None"
       THEN [raised |-> "", tables |-> <<>>, queries |-> sent]
       ELSE [raised |-> "",
             tables |-> OneTable(get_show_create_table(is_dryrun, answer)),
             queries |-> sent \cup TableQueries(is_dryrun, answer)]

\* the loop over wikis_todo of show_tables_for_wikis for one host
CheckTablesOfWikis(table_info, dbhost, cursor, wikis_todo, is_dryrun, srv) ==
    LET F[i \in 0..Len(wikis_todo)] ==
            IF i = 0
            THEN [table_info |-> table_info, queries |-> {}, raised |-> "",
                  left |-> wikis_todo]
            ELSE LET st == F[i-1]
                     w  == wikis_todo[i]
                     r  == check_tables(w, cursor, is_dryrun, srv.use[w],
                                        srv.answer)
                 IN IF st.raised # "" THEN st
                    ELSE IF HasCell(st.table_info, dbhost, w)
                    THEN [st EXCEPT !.left = Tail(@)]
                    ELSE IF r.raised # ""
                    THEN [st EXCEPT
                              !.raised = r.raised,
                              !.queries = @ \cup {<<dbhost, q, w>> :
                                                      q \in r.queries}]
                    ELSE [table_info |->
                              DictSet(st.table_info, dbhost,
                                      DictSet(DictGet(st.table_info, dbhost),
                                              w, r.tables)),
                          queries |-> st.queries \cup
                                      {<<dbhost, q, w>> : q \in r.queries},
                          raised |-> "",
                          left |-> Tail(st.left)]
    IN F[Len(wikis_todo)]

\* the values of --master and of --main_wiki; NoneVal when not given
MasterOpts == {NoneVal, "", "h1"}

MainWikiOpts == {NoneVal, "A"}

\* the servers of a run: the hosts that refuse connections, the outcome of
\* USE for each wiki, and the answer to the two queries for the table
ServerAnswers ==
    {TableAnswer(FALSE, <<<<"page">>>>, FALSE,
                 <<<<"page", CreateLines("create_table",
                                 TableInfo("page", BaseColumns, <<PrimaryKey>>,
                                           <<ParamLine("5")>>))>>>>),
     NoAnswer,
     TableAnswer(TRUE, <<>>, FALSE, <<>>)}

Servers ==
    [down : SUBSET Hosts, use : [Wikis -> UseOutcomes], answer : ServerAnswers]

GetInit ==
    /\ dryrun \in BOOLEAN
    /\ topo \in Topologies
    /\ server \in Servers
    /\ main_master \in MasterOpts
    /\ main_wiki \in MainWikiOpts
    /\ table_info_per_dbhost_wiki = <<>>
    /\ table_descr_by_host_wiki = <<>>
    /\ pc = "idle"
    /\ masters_left = <<>>
    /\ section_master = NoneVal
    /\ wikis_left = <<>>
    /\ wiki = NoneVal
    /\ todo_idx = 0
    /\ grouped_dbhosts = <<>>
    /\ grouped_wikis = <<>>
    /\ dbhosts_done = <<>>
    /\ wikis_done = <<>>
    /\ diffed = <<>>
    /\ skipped = {}
    /\ gpc = "args"
    /\ dbhosts_left = <<>>
    /\ this_dbhost = NoneVal
    /\ wikis_todo_left = <<>>
    /\ dbcursor = NoneVal
    /\ cursors = {}
    /\ queries = {}

\* setup_args with check_dependent_opts, and do_main up to the loop over
\* the hosts; usage() writes the message and exits
SetupArgs ==
    /\ gpc = "args"
    /\ LET count == (IF main_wiki # NoneVal THEN 1 ELSE 0)
                    + (IF main_master # NoneVal THEN 1 ELSE 0)
       IN IF count = 1
          THEN gpc' = "usage" /\ UNCHANGED dbhosts_left
          ELSE gpc' = "hosts" /\ dbhosts_left' = topo.dbhosts
    /\ UNCHANGED <<server, this_dbhost, wikis_todo_left, dbcursor, cursors,
                   queries>>
    /\ UNCHANGED <<dryrun, fnvars, loopvars, explainvars>>

\* one host of the loop of show_tables_for_wikis up to its loop over the
\* wikis: the entry of the host, get_cursor and check_version
GetCursor ==
    /\ gpc = "hosts"
    /\ dbhosts_left # <<>>
    /\ LET dbhost == Head(dbhosts_left)
           wikis_todo == get_wikis_for_dbhost(topo, dbhost, wikilist)
           entered == IF DictHas(table_info_per_dbhost_wiki, dbhost)
                      THEN table_info_per_dbhost_wiki
                      ELSE DictSet(table_info_per_dbhost_wiki, dbhost, <<>>)
       IN /\ dbhosts_left' = Tail(dbhosts_left)
          /\ this_dbhost' = dbhost
          /\ IF wikis_todo = <<>>
             THEN UNCHANGED <<table_info_per_dbhost_wiki, gpc, wikis_todo_left,
                              dbcursor, cursors, queries>>
             ELSE /\ table_info_per_dbhost_wiki' = entered
                  /\ IF dryrun
                     THEN /\ dbcursor' = NoneVal
                          /\ wikis_todo_left' = wikis_todo
                          /\ gpc' = "wikis"
                          /\ UNCHANGED <<cursors, queries>>
                     ELSE IF dbhost \in server.down
                     THEN /\ dbcursor' = NoneVal
                          /\ UNCHANGED <<gpc, wikis_todo_left, cursors, queries>>
                     ELSE /\ dbcursor' = dbhost
                          /\ cursors' = cursors \cup {dbhost}
                          /\ queries' = queries \cup
                                 {<<dbhost, "SHOW VARIABLES", NoneVal>>}
                          /\ wikis_todo_left' = wikis_todo
                          /\ gpc' = "wikis"
    /\ UNCHANGED <<topo, table_descr_by_host_wiki, main_master, main_wiki,
                   pc, masters_left, section_master, wikis_left, wiki,
                   todo_idx, grouped_dbhosts, grouped_wikis, dbhosts_done,
                   wikis_done, diffed, skipped>>
    /\ UNCHANGED <<dryrun, fnvars, explainvars, server>>

\* the loop over the wikis of the host and dbcursor.close(); an exception
\* of check_tables leaves show_tables_for_wikis and do_main
CheckTables ==
    /\ gpc = "wikis"
    /\ LET cursor == IF dbcursor = NoneVal THEN PyNone ELSE PyCursor(dbcursor)
           done == CheckTablesOfWikis(table_info_per_dbhost_wiki, this_dbhost,
                                      cursor, wikis_todo_left, dryrun, server)
       IN /\ table_info_per_dbhost_wiki' = done.table_info
          /\ queries' = queries \cup done.queries
          /\ wikis_todo_left' = done.left
          /\ IF done.raised # ""
             THEN gpc' = "crashed" /\ UNCHANGED <<dbcursor, cursors>>
             ELSE /\ gpc' = "hosts"
                  /\ cursors' = IF dryrun THEN cursors
                                ELSE cursors \ {this_dbhost}
                  /\ UNCHANGED dbcursor
    /\ UNCHANGED <<topo, table_descr_by_host_wiki, main_master, main_wiki,
                   pc, masters_left, section_master, wikis_left, wiki,
                   todo_idx, grouped_dbhosts, grouped_wikis, dbhosts_done,
                   wikis_done, diffed, skipped>>
    /\ UNCHANGED <<dryrun, fnvars, explainvars, server, dbhosts_left, this_dbhost>>

\* flatten_table_info and display_diffs entered from inside the loop over
\* the hosts
FlattenTableInfoInsideLoop ==
    /\ gpc = "hosts"
    /\ table_descr_by_host_wiki' =
           flatten_table_info(table_info_per_dbhost_wiki, params_ignore)
    /\ pc' = "start"
    /\ gpc' = "collected"
    /\ UNCHANGED <<topo, table_info_per_dbhost_wiki, main_master, main_wiki,
                   masters_left, section_master, wikis_left, wiki,
                   todo_idx, grouped_dbhosts, grouped_wikis, dbhosts_done,
                   wikis_done, diffed, skipped>>
    /\ UNCHANGED <<dryrun, fnvars, explainvars, server, dbhosts_left, this_dbhost,
                   wikis_todo_left, dbcursor, cursors, queries>>

\* after the last host: flatten_table_info, then display_diffs is entered
FlattenTableInfo ==
    /\ gpc = "hosts"
    /\ dbhosts_left = <<>>
    /\ table_descr_by_host_wiki' =
           flatten_table_info(table_info_per_dbhost_wiki, params_ignore)
    /\ pc' = "start"
    /\ gpc' = "collected"
    /\ UNCHANGED <<topo, table_info_per_dbhost_wiki, main_master, main_wiki,
                   masters_left, section_master, wikis_left, wiki,
                   todo_idx, grouped_dbhosts, grouped_wikis, dbhosts_done,
                   wikis_done, diffed, skipped>>
    /\ UNCHANGED <<dryrun, fnvars, explainvars, server, dbhosts_left, this_dbhost,
                   wikis_todo_left, dbcursor, cursors, queries>>

\* a run of do_main; of the report loops, the steps that an exception in
\* check_tables does not cut off
GetNext ==
    \/ SetupArgs
    \/ GetCursor
    \/ CheckTables
    \/ FlattenTableInfo
    \/ DisplayDiffsPerSect
    \/ PerSectMaster
    \/ PerSectEnd
    \/ DisplayDiffsAllSects
    \/ AllSectsMaster
    \/ AllSectsWikisEnd
    \/ AllSectsEnd

(***************************************************************************)
(* Specifications.  SpecFn runs the flatten and diff routines on a pair of *)
(* table infos; Spec runs display_diffs on a collected matrix; SpecRun     *)
(* runs do_main from the parsed options.                                   *)
(***************************************************************************)
(***************************************************************************)
(* explain_sql_query.py: QueryInfo.run and the worker thread async_query.  *)
(* The main thread is cut at the calls it makes to a server, since the     *)
(* worker thread and the server act between them.  An exception that       *)
(* leaves run_on_wiki is caught nowhere: it leaves run and do_main.        *)
(***************************************************************************)
\* an int, for the ids of server threads: dbconn.thread_id() and the Id
\* column of SHOW PROCESSLIST
PyInt(n) == [type |-> "int", val |-> n]

\* str(thread_id)
str_of(v) == [type |-> "str", val |-> v.val]

\* self.settings['servers']: shards with their hosts and wikis
settings == <<[shard |-> "s1", hosts |-> <<"db1", "db2">>, wikis |-> <<"A">>]>>

\* the queries of the query file for one wiki, after fillin_query_template
querytexts == <<"q1", "q2">>

\* the iterations of the loop of run_on_wiki, in the order in which run,
\* run_on_server and run_on_wiki come to them
RECURSIVE Flat(_)
Flat(ss) == IF ss = <<>> THEN <<>> ELSE Head(ss) \o Flat(Tail(ss))

run_order ==
    Flat([s \in 1..Len(settings) |->
        Flat([h \in 1..Len(settings[s].hosts) |->
            Flat([w \in 1..Len(settings[s].wikis) |->
                [q \in 1..Len(querytexts) |->
                    [host  |-> settings[s].hosts[h],
                     wiki  |-> settings[s].wikis[w],
                     query |-> querytexts[q]]]])])])

\* the step of the main thread that sent a statement for iteration idx
Step(name, idx, listed) == [step |-> name, idx |-> idx, listed |-> listed]

ExplainInit ==
    /\ dryrun \in BOOLEAN
    /\ xpc = "loop"
    /\ work_idx = 0
    /\ thread_id = PyNone
    /\ workers = <<>>
    /\ processlist = {}
    /\ killed = {}
    /\ steps = <<>>

\* the exception leaves run
Abort ==
    /\ xpc' = "aborted"
    /\ UNCHANGED <<work_idx, thread_id, workers, processlist, killed>>

\* run_on_wiki, head of the loop: get_db_cursor opens the connection on
\* which the query of this iteration will run.  The server adds the thread
\* of the connection to its process list.
GetDbCursor ==
    /\ xpc = "loop"
    /\ work_idx < Len(run_order)
    /\ work_idx' = work_idx + 1
    /\ steps' = steps
    /\ IF dryrun
       THEN /\ thread_id' = PyNone
            /\ xpc' = "use"
            /\ UNCHANGED <<workers, processlist, killed>>
       ELSE \/ /\ thread_id' = PyInt(work_idx + 1)
               /\ processlist' = processlist \cup {work_idx + 1}
               /\ xpc' = "use"
               /\ UNCHANGED <<workers, killed>>
            \/ /\ xpc' = "aborted"
               /\ UNCHANGED <<thread_id, workers, processlist, killed>>
    /\ UNCHANGED <<fnvars, loopvars, getvars, dryrun>>

\* the loops of run, run_on_server and run_on_wiki are exhausted
RunEnd ==
    /\ xpc = "loop"
    /\ work_idx = Len(run_order)
    /\ xpc' = "finished"
    /\ UNCHANGED <<work_idx, thread_id, workers, processlist, killed, steps>>
    /\ UNCHANGED <<fnvars, loopvars, getvars, dryrun>>

\* QueryInfo.do_use_wiki: returns, or raises when the server refuses
ExplainUseWiki ==
    /\ xpc = "use"
    /\ \/ /\ xpc' = "start"
          /\ UNCHANGED <<work_idx, thread_id, workers, processlist, killed>>
       \/ ~dryrun /\ Abort
    /\ UNCHANGED steps
    /\ UNCHANGED <<fnvars, loopvars, getvars, dryrun>>

\* QueryInfo.start_query and the conversion of the thread id that follows
\* it: the worker thread is started, it has not sent the query yet
StartQuery ==
    /\ xpc = "start"
    /\ IF dryrun
       THEN /\ thread_id' = PyStr("<none (dryrun)>")
            /\ UNCHANGED workers
       ELSE /\ thread_id' = str_of(thread_id)
            /\ workers' = Append(workers, "started")
    /\ steps' = Append(steps, Step("start", work_idx, FALSE))
    /\ xpc' = "explain"
    /\ UNCHANGED <<work_idx, processlist, killed>>
    /\ UNCHANGED <<fnvars, loopvars, getvars, dryrun>>

\* explain_and_kill, first part: a second connection, and QueryInfo.explain
\* on it.  SHOW EXPLAIN returns rows, or fails with 1933 (which is
\* accepted), or fails otherwise; the connection may fail too.
Explain ==
    /\ xpc = "explain"
    /\ \/ /\ xpc' = "kill"
          /\ steps' = Append(steps, Step("explain", work_idx, FALSE))
          /\ UNCHANGED <<work_idx, thread_id, workers, processlist, killed>>
       \/ ~dryrun /\ Abort /\ UNCHANGED steps
    /\ UNCHANGED <<fnvars, loopvars, getvars, dryrun>>

\* explain_and_kill, second part: QueryInfo.kill, the printing of the
\* results and the close of the second cursor.  The server marks the thread
\* as killed; error 1094 (no such thread) is accepted, another error
\* leaves the routine.
Kill ==
    /\ xpc = "kill"
    /\ \/ /\ xpc' = "check"
          /\ steps' = Append(steps, Step("kill", work_idx, FALSE))
          /\ killed' = IF dryrun THEN killed
                       ELSE killed \cup ({work_idx} \cap processlist)
          /\ UNCHANGED <<work_idx, thread_id, workers, processlist>>
       \/ ~dryrun /\ Abort /\ UNCHANGED steps
    /\ UNCHANGED <<fnvars, loopvars, getvars, dryrun>>

\* QueryInfo.check_if_mysqlthr_exists on the rows the server returns for
\* SHOW PROCESSLIST: row[0] == thread_id for some row
thread_in_rows(rows, tid) == \E row \in rows : row[1] = tid

\* the rows of SHOW PROCESSLIST: the Id column is an int
ProcessRows == {<<PyInt(id)>> : id \in processlist}

\* explain_and_kill, last part: check_if_mysqlthr_exists on a third
\* connection, and the raise when it returns None or True.  None is
\* returned when SHOW PROCESSLIST fails.
CheckIfMysqlthrExists ==
    /\ xpc = "check"
    /\ IF dryrun
       THEN /\ steps' = Append(steps, Step("check", work_idx, FALSE))
            /\ xpc' = "close"
       ELSE \/ /\ steps' = Append(steps, Step("check", work_idx,
                                              work_idx \in processlist))
               /\ xpc' = IF thread_in_rows(ProcessRows, thread_id)
                         THEN "aborted" ELSE "close"
            \/ /\ steps' = Append(steps, Step("check_failed", work_idx,
                                              work_idx \in processlist))
               /\ xpc' = "aborted"
    /\ UNCHANGED <<work_idx, thread_id, workers, processlist, killed>>
    /\ UNCHANGED <<fnvars, loopvars, getvars, dryrun>>

\* run_on_wiki, cursor.close() on the cursor that was handed to the worker
\* thread.  While the worker thread is still using the cursor the two
\* threads use one connection at the same time, and the close may raise.
CursorClose ==
    /\ xpc = "close"
    /\ \/ /\ xpc' = "join"
          /\ UNCHANGED <<work_idx, thread_id, workers, processlist, killed>>
       \/ /\ ~dryrun
          /\ workers[Len(workers)] # "finished"
          /\ Abort
    /\ UNCHANGED steps
    /\ UNCHANGED <<fnvars, loopvars, getvars, dryrun>>

\* run_on_wiki, thr.join(): returns when the worker thread has ended
Join ==
    /\ xpc = "join"
    /\ IF dryrun THEN TRUE ELSE workers[Len(workers)] = "finished"
    /\ xpc' = "loop"
    /\ UNCHANGED <<work_idx, thread_id, workers, processlist, killed, steps>>
    /\ UNCHANGED <<fnvars, loopvars, getvars, dryrun>>

\* async_query, cursor.execute: the query reaches the server and runs
\* there, unless the thread of the connection was killed before (the
\* execute raises and the worker thread ends)
AsyncQueryExecute ==
    /\ \E i \in 1..Len(workers) :
           /\ workers[i] = "started"
           /\ workers' = [workers EXCEPT ![i] =
                  IF i \in killed \/ i \notin processlist
                  THEN "finished" ELSE "executing"]
    /\ UNCHANGED <<xpc, work_idx, thread_id, processlist, killed, steps>>
    /\ UNCHANGED <<fnvars, loopvars, getvars, dryrun>>

\* async_query, the rest: the rows are read to the end and the cursor is
\* closed, or the execute or a fetch raises because the query was
\* interrupted; the worker thread ends
AsyncQueryEnd ==
    /\ \E i \in 1..Len(workers) :
           /\ workers[i] = "executing"
           /\ workers' = [workers EXCEPT ![i] = "finished"]
    /\ UNCHANGED <<xpc, work_idx, thread_id, processlist, killed, steps>>
    /\ UNCHANGED <<fnvars, loopvars, getvars, dryrun>>

\* the server: a thread that was killed leaves the process list
ThreadGone ==
    /\ \E id \in killed \cap processlist :
           processlist' = processlist \ {id}
    /\ UNCHANGED <<xpc, work_idx, thread_id, workers, killed, steps>>
    /\ UNCHANGED <<fnvars, loopvars, getvars, dryrun>>

ExplainNext ==
    \/ GetDbCursor
    \/ RunEnd
    \/ ExplainUseWiki
    \/ StartQuery
    \/ Explain
    \/ Kill
    \/ CheckIfMysqlthrExists
    \/ CursorClose
    \/ Join
    \/ AsyncQueryExecute
    \/ AsyncQueryEnd
    \/ ThreadGone

ExplainIdle ==
    /\ xpc = "idle"
    /\ work_idx = 0
    /\ thread_id = PyNone
    /\ workers = <<>>
    /\ processlist = {}
    /\ killed = {}
    /\ steps = <<>>

FnIdle ==
    /\ sql_results = <<>>
    /\ master_table_info = Absent
    /\ repl_table_info = Absent
    /\ table_descr = <<>>
    /\ column_report = NotRun
    /\ key_report = NotRun
    /\ parameter_report = NotRun
    /\ table_report = NotRun
    /\ fpc = "idle"

LoopIdle ==
    /\ topo = <<>>
    /\ table_info_per_dbhost_wiki = <<>>
    /\ table_descr_by_host_wiki = <<>>
    /\ main_master = NoneVal
    /\ main_wiki = NoneVal
    /\ pc = "idle"
    /\ masters_left = <<>>
    /\ section_master = NoneVal
    /\ wikis_left = <<>>
    /\ wiki = NoneVal
    /\ todo_idx = 0
    /\ grouped_dbhosts = <<>>
    /\ grouped_wikis = <<>>
    /\ dbhosts_done = <<>>
    /\ wikis_done = <<>>
    /\ diffed = <<>>
    /\ skipped = {}

GetIdle ==
    /\ server = <<>>
    /\ gpc = "idle"
    /\ dbhosts_left = <<>>
    /\ this_dbhost = NoneVal
    /\ wikis_todo_left = <<>>
    /\ dbcursor = NoneVal
    /\ cursors = {}
    /\ queries = {}

Init == LoopInit /\ FnIdle /\ GetIdle /\ ExplainIdle /\ dryrun = FALSE

Next == LoopNext

Spec == Init /\ [][Next]_vars

InitFn == FnInit /\ LoopIdle /\ GetIdle /\ ExplainIdle

NextFn == FnNext

SpecFn == InitFn /\ [][NextFn]_vars

InitRun == GetInit /\ FnIdle /\ ExplainIdle

NextRun == GetNext

SpecRun == InitRun /\ [][NextRun]_vars

InitExplain == ExplainInit /\ FnIdle /\ LoopIdle /\ GetIdle

NextExplain == ExplainNext

SpecExplain == InitExplain /\ [][NextExplain]_vars

(***************************************************************************)
(* Properties of the flatten and diff routines (SpecFn).                   *)
(***************************************************************************)
FlattenDone == fpc \in {"flattened", "columns", "keys", "parameters", "done"}

ColumnsDone == fpc \in {"columns", "keys", "parameters"}

ParametersDone == fpc = "parameters"

\* the column name -> property text mapping, as a set of pairs
ColumnMap(info) == Range(info.columns)

\* the parameter map of the first parameter line without the ignored names
FilteredParams(info) ==
    {e \in Range(params_to_dict(info.parameters[1])) :
         ~InList(e[1], params_ignore)}

\* both have a parameter line with the same field names in the same
\* places, and every entry that differs has its name in names
ParamsDifferOnlyIn(m, r, names) ==
    /\ m.parameters # <<>>
    /\ r.parameters # <<>>
    /\ Len(m.parameters[1]) = Len(r.parameters[1])
    /\ \A i \in 1..Len(m.parameters[1]) :
           /\ m.parameters[1][i][1] = r.parameters[1][i][1]
           /\ m.parameters[1][i] # r.parameters[1][i]
                  => m.parameters[1][i][1] \in names

\* C2: two table infos with the same column mapping (in any column order),
\* the same keys and parameter maps that are equal once the ignored names
\* are removed get identical descriptions from flatten_one_wiki.
C2Pre ==
    /\ BothPresent
    /\ master_table_info.table = repl_table_info.table
    /\ ColumnMap(master_table_info) = ColumnMap(repl_table_info)
    /\ master_table_info.keys = repl_table_info.keys
    /\ master_table_info.parameters # <<>>
    /\ repl_table_info.parameters # <<>>
    /\ FilteredParams(master_table_info) = FilteredParams(repl_table_info)

C2_SameStructureSameDescr ==
    (FlattenDone /\ C2Pre)
        => /\ ~table_descr[1].err
           /\ ~table_descr[2].err
           /\ table_descr[1].json = table_descr[2].json

C2_Witness ==
    /\ FlattenDone
    /\ C2Pre
    /\ DictKeys(master_table_info.columns) # DictKeys(repl_table_info.columns)
    /\ master_table_info.parameters # repl_table_info.parameters

\* C3 as stated: two table infos that differ only in the value of an
\* ignored parameter have equal descriptions and a non-empty report from
\* display_parameter_diffs.
C3Pre ==
    /\ BothPresent
    /\ master_table_info # repl_table_info
    /\ master_table_info.table = repl_table_info.table
    /\ master_table_info.columns = repl_table_info.columns
    /\ master_table_info.keys = repl_table_info.keys
    /\ Len(master_table_info.parameters) = Len(repl_table_info.parameters)
    /\ ParamsDifferOnlyIn(master_table_info, repl_table_info,
                          Range(params_ignore))

C3_Original ==
    (ParametersDone /\ C3Pre)
        => /\ table_descr[1] = table_descr[2]
           /\ parameter_report.runqueries.out # <<>>

\* C3 amended: two table infos that differ only in the value of an ignored
\* parameter have equal descriptions, and display_parameter_diffs
\* completes and reports nothing for them.
C3_IgnoredValueNoReport ==
    (ParametersDone /\ C3Pre)
        => /\ ~table_descr[1].err
           /\ table_descr[1] = table_descr[2]
           /\ parameter_report.runqueries = [out |-> <<>>, err |-> FALSE]

C3_Witness == ParametersDone /\ C3Pre

\* C4: a replica with the baseline's columns plus one more, the same keys
\* and parameters that differ only in the AUTO_INCREMENT value gets exactly
\* one finding, the extra column, and a description different from the
\* baseline's.  The baseline has at least one column, as every table a
\* server reports has.
C4Pre ==
    /\ BothPresent
    /\ master_table_info.table = repl_table_info.table
    /\ master_table_info.columns # <<>>
    /\ ColumnMap(master_table_info) \subseteq ColumnMap(repl_table_info)
    /\ Len(repl_table_info.columns) = Len(master_table_info.columns) + 1
    /\ master_table_info.keys = repl_table_info.keys
    /\ ParamsDifferOnlyIn(master_table_info, repl_table_info,
                          {"AUTO_INCREMENT"})

C4_OneExtraColumnFinding ==
    (fpc = "done" /\ C4Pre)
        => /\ ~table_report.err
           /\ Len(table_report.out) = 1
           /\ table_report.out[1].kind = "column_extra"
           /\ <<table_report.out[1].names[1],
                DictGet(repl_table_info.columns, table_report.out[1].names[1])>>
                  \in ColumnMap(repl_table_info) \ ColumnMap(master_table_info)
           /\ key_report.out = <<>>
           /\ parameter_report.runqueries = [out |-> <<>>, err |-> FALSE]
           /\ parameter_report.checktables = [out |-> <<>>, err |-> FALSE]
           /\ ~table_descr[1].err
           /\ ~table_descr[2].err
           /\ table_descr[1].json # table_descr[2].json

C4_Witness ==
    /\ fpc = "done"
    /\ C4Pre
    /\ master_table_info.parameters # repl_table_info.parameters
    /\ Len(master_table_info.columns) = MaxCols - 1

\* C6 as stated: diffing a table info against itself completes and yields
\* no finding, also for one with no columns, no keys or no parameter line.
C6_SelfDiffEmpty ==
    (fpc = "done" /\ master_table_info.present
                  /\ master_table_info = repl_table_info)
        => table_report = [out |-> <<>>, err |-> FALSE]

\* C7 as stated, for table infos with at least one column on each side:
\* display_column_diffs completes, reports every baseline-only column
\* missing once, every target-only column extra once, and never mentions a
\* column that both sides have with equal property text.
C7_ColumnDiffComplete ==
    (ColumnsDone /\ master_table_info.columns # <<>>
                 /\ repl_table_info.columns # <<>>)
        => /\ ~column_report.err
           /\ \A c \in ColNames :
                  /\ Len(SelectSeq(column_report.out,
                         LAMBDA f : f.kind = "column_missing" /\ f.names = <<c>>))
                     = IF /\ DictHas(master_table_info.columns, c)
                          /\ ~DictHas(repl_table_info.columns, c)
                       THEN 1 ELSE 0
                  /\ Len(SelectSeq(column_report.out,
                         LAMBDA f : f.kind = "column_extra" /\ f.names = <<c>>))
                     = IF /\ DictHas(repl_table_info.columns, c)
                          /\ ~DictHas(master_table_info.columns, c)
                       THEN 1 ELSE 0
                  /\ (/\ DictHas(master_table_info.columns, c)
                      /\ DictHas(repl_table_info.columns, c)
                      /\ DictGet(master_table_info.columns, c)
                             = DictGet(repl_table_info.columns, c))
                         => \A i \in 1..Len(column_report.out) :
                                column_report.out[i].names # <<c>>

\* C8 as stated: two table infos with the same set of keys listed in a
\* different order, all else equal, have equal descriptions.
C8_KeyOrderIrrelevant ==
    (FlattenDone /\ BothPresent
        /\ master_table_info.table = repl_table_info.table
        /\ master_table_info.columns = repl_table_info.columns
        /\ master_table_info.parameters = repl_table_info.parameters
        /\ master_table_info.parameters # <<>>
        /\ Range(master_table_info.keys) = Range(repl_table_info.keys)
        /\ Len(master_table_info.keys) = Len(repl_table_info.keys))
        => table_descr[1] = table_descr[2]

(***************************************************************************)
(* Properties of the grouping routines and the report loops (Spec).        *)
(***************************************************************************)
\* how many times x is listed in the member lists of the groups
Occurrences(groups, x) ==
    Cardinality({p \in UNION {{<<g, i>> : i \in 1..Len(groups[g][2])} :
                                 g \in 1..Len(groups)} :
                     groups[p[1]][2][p[2]] = x})

\* the host list the report loop in progress hands to get_grouped_dbhosts
ListedHosts(d) ==
    IF main_master = NoneVal THEN get_dbhosts_for_wiki(topo, d)
    ELSE DictKeys(table_descr_by_host_wiki)

\* C1: in the groups computed for a wiki every listed host with a
\* description of that wiki is a member of exactly one group, once, and no
\* other host is a member; likewise every wiki a host has a description of
\* is in exactly one of the wiki groups computed for that host.
C1_GroupsPartition ==
    /\ \A k \in 1..Len(grouped_dbhosts) :
           \A h \in Hosts :
               Occurrences(grouped_dbhosts[k][2], h)
                   = IF /\ InList(h, ListedHosts(grouped_dbhosts[k][1]))
                        /\ HasCell(table_descr_by_host_wiki, h,
                                   grouped_dbhosts[k][1])
                     THEN 1 ELSE 0
    /\ diffed = <<>> =>
           \A k \in 1..Len(grouped_wikis) :
               \A d \in Wikis :
                   Occurrences(grouped_wikis[k][2], d)
                       = IF HasCell(table_descr_by_host_wiki,
                                    grouped_wikis[k][1], d)
                         THEN 1 ELSE 0

C1_Witness ==
    /\ diffed = <<>>
    /\ \E k \in 1..Len(grouped_dbhosts) :
           /\ Len(grouped_dbhosts[k][2]) >= 2
           /\ \E g \in 1..Len(grouped_dbhosts[k][2]) :
                  Len(grouped_dbhosts[k][2][g][2]) >= 2
    /\ \E k \in 1..Len(grouped_wikis) :
           \E g \in 1..Len(grouped_wikis[k][2]) :
               Len(grouped_wikis[k][2][g][2]) >= 2

\* the report loop has ended, normally or with an exception
LoopEnded == pc \in {"done", "crashed"}

PageOf(h, d) == DictGet(Cell(table_info_per_dbhost_wiki, h, d), "page")

\* number of diffs of wiki d on host r made against master m
DiffCount(r, d, m) ==
    Cardinality({i \in 1..Len(diffed) :
                     /\ diffed[i].dbhost = r
                     /\ diffed[i].wiki = d
                     /\ diffed[i].master = m})

\* m is a master among the hosts of wiki d and has tables for it
MasterOf(m, d) ==
    /\ is_master(topo, m)
    /\ InList(m, get_dbhosts_for_wiki(topo, d))
    /\ HasCell(table_info_per_dbhost_wiki, m, d)

ReplicaOf(r, m, d) ==
    /\ r # m
    /\ InList(r, get_dbhosts_for_wiki(topo, d))
    /\ HasCell(table_info_per_dbhost_wiki, r, d)

HostGroupsOf(d) ==
    get_grouped_hosts_one_wiki(table_descr_by_host_wiki,
                               get_dbhosts_for_wiki(topo, d), d)

\* C5 as stated: after a run without a main master, two replicas with the
\* same table info that differs from the master's only in AUTO_INCREMENT
\* are in one group, each was diffed against the master exactly once, and
\* neither against the other.
C5_TwinReplicasEachDiffedOnce ==
    (main_master = NoneVal /\ LoopEnded)
        => \A d \in Wikis : \A m \in Hosts : \A r1 \in Hosts : \A r2 \in Hosts :
               (/\ MasterOf(m, d)
                /\ ReplicaOf(r1, m, d)
                /\ ReplicaOf(r2, m, d)
                /\ r1 # r2
                /\ ~is_master(topo, r1)
                /\ ~is_master(topo, r2)
                /\ PageOf(r1, d) = PageOf(r2, d)
                /\ PageOf(r1, d) # PageOf(m, d)
                /\ PageOf(r1, d).columns = PageOf(m, d).columns
                /\ PageOf(r1, d).keys = PageOf(m, d).keys
                /\ ParamsDifferOnlyIn(PageOf(m, d), PageOf(r1, d),
                                      {"AUTO_INCREMENT"}))
                   => /\ MatchingGroup(r1, HostGroupsOf(d))
                            = MatchingGroup(r2, HostGroupsOf(d))
                      /\ DiffCount(r1, d, m) = 1
                      /\ DiffCount(r2, d, m) = 1
                      /\ DiffCount(r1, d, r2) = 0
                      /\ DiffCount(r2, d, r1) = 0

\* C9 as stated: after a run without a main master, for every wiki a
\* section master has tables for, exactly one member of each host group
\* whose description differs from the master's was diffed against the
\* master, once, and no host with the master's description was diffed.
C9_OneRepresentativePerGroup ==
    (main_master = NoneVal /\ LoopEnded)
        => \A d \in Wikis : \A m \in Hosts :
               (MasterOf(m, d) /\ topo.dbhosts_by_section # <<>>)
                   => \A g \in 1..Len(HostGroupsOf(d)) :
                          LET members == Range(HostGroupsOf(d)[g][2]) \ {m}
                              count == Cardinality(
                                  {i \in 1..Len(diffed) :
                                       /\ diffed[i].dbhost \in members
                                       /\ diffed[i].wiki = d
                                       /\ diffed[i].master = m})
                          IN IF HostGroupsOf(d)[g][1]
                                    = Cell(table_descr_by_host_wiki, m, d)
                             THEN count = 0
                             ELSE count = 1

\* C10 as stated: with a main master, a host passed over for a wiki has,
\* for that wiki, the description of a cell that was diffed before.
C10_SkippedOnlyIfSameAsDiffed ==
    \A c \in skipped :
        \E i \in 1..Len(diffed) :
            Cell(table_descr_by_host_wiki, diffed[i].dbhost, diffed[i].wiki)
                = Cell(table_descr_by_host_wiki, c[1], c[2])

\* C11 as stated, for matrices in which every host has tables: when a run
\* with a main master has finished, every cell of the matrix other than
\* the cell of the main wiki on the main master was diffed or has the
\* description of a cell that was diffed.
C11_EveryCellCovered ==
    (/\ main_master # NoneVal
     /\ pc = "done"
     /\ \A k \in 1..Len(table_info_per_dbhost_wiki) :
            table_info_per_dbhost_wiki[k][2] # <<>>)
        => \A h \in Hosts : \A d \in Wikis :
               (/\ HasCell(table_info_per_dbhost_wiki, h, d)
                /\ <<h, d>> # <<main_master, main_wiki>>)
                   => \E i \in 1..Len(diffed) :
                          Cell(table_descr_by_host_wiki,
                               diffed[i].dbhost, diffed[i].wiki)
                              = Cell(table_descr_by_host_wiki, h, d)

\* the server has the table and answers SHOW CREATE TABLE with a statement
\* whose first line is not CREATE TABLE
Malformed(answer) ==
    /\ ~answer.exists_error
    /\ answer.exists_rows # <<>>
    /\ ~answer.create_error
    /\ answer.create_rows # <<>>
    /\ answer.create_rows[1][2][1].kind # "create_table"

\* what is collected for a table the server does not have
NoSuchTable == get_show_create_table(FALSE, NoAnswer)

\* descriptions of wiki A on two hosts with the tables m and r
TwoHostDescrs(m, r) ==
    flatten_table_info(<<<<"h1", <<<<"A", OneTable(m)>>>>>>,
                         <<"h2", <<<<"A", OneTable(r)>>>>>>>>, params_ignore)

\* C14: when the statement a server returns for a table does not start
\* with CREATE TABLE, format_create_table_info returns the empty result
\* without raising, and the description, the grouping and the diff are
\* those of a table the server does not have.
C14_MalformedIsAbsent ==
    (fpc = "done" /\ ~dryrun /\ Malformed(sql_results[2]))
        => /\ repl_table_info = NoSuchTable
           /\ table_descr[2]
                  = flatten_one_wiki(OneTable(NoSuchTable), params_ignore)
           /\ get_grouped_hosts_one_wiki(
                  TwoHostDescrs(master_table_info, repl_table_info),
                  <<"h1", "h2">>, "A")
                  = get_grouped_hosts_one_wiki(
                        TwoHostDescrs(master_table_info, NoSuchTable),
                        <<"h1", "h2">>, "A")
           /\ table_report = display_table_diffs(master_table_info, NoSuchTable)
           /\ ~table_report.err

C14_Witness ==
    /\ fpc = "done"
    /\ ~dryrun
    /\ Malformed(sql_results[2])
    /\ Len(sql_results[2].create_rows[1][2]) > 1
    /\ master_table_info.present
    /\ table_report.out = <<Finding("missing_on_replica", <<>>, <<>>)>>

\* C20: display_table_diffs with an absent master table and a present
\* replica table reports 'missing on master' only, with a present master
\* table and an absent replica table 'missing on replica' only, with both
\* absent nothing; in none of these cases are columns, keys or parameters
\* compared.
C20_AbsentTableOnlyReported ==
    (fpc = "done" /\ ~BothPresent)
        => /\ table_report.out =
                  IF ~master_table_info.present /\ repl_table_info.present
                  THEN <<Finding("missing_on_master", <<>>, <<>>)>>
                  ELSE IF master_table_info.present
                  THEN <<Finding("missing_on_replica", <<>>, <<>>)>>
                  ELSE <<>>
           /\ ~table_report.err
           /\ column_report = NotRun
           /\ key_report = NotRun
           /\ parameter_report = NotRun

C20_Witness ==
    /\ fpc = "done"
    /\ ~master_table_info.present
    /\ repl_table_info.present
    /\ table_report.out # <<>>

(***************************************************************************)
(* Properties of the collection and of its errors.                         *)
(***************************************************************************)
\* a host whose connection could not be opened: every host of the
\* configurations serves a wiki, so only such a host has an empty entry
Unreachable(h) ==
    /\ DictHas(table_info_per_dbhost_wiki, h)
    /\ DictGet(table_info_per_dbhost_wiki, h) = <<>>

\* the host is a member of a group of hosts of some wiki
InHostGroup(h) ==
    \E i \in 1..Len(grouped_dbhosts) :
        \E j \in 1..Len(grouped_dbhosts[i][2]) :
            InList(h, grouped_dbhosts[i][2][j][2])

\* C12 as stated: a host whose connection could not be opened has no cell
\* in the matrix, is in no group and is never diffed, and the run with
\* the remaining hosts is not aborted, with or without a main master.
C12_UnreachableHostLeftOut ==
    \A h \in Hosts :
        Unreachable(h)
            => /\ \A d \in Wikis : ~HasCell(table_info_per_dbhost_wiki, h, d)
               /\ ~InHostGroup(h)
               /\ \A i \in 1..Len(diffed) : diffed[i].dbhost # h
               /\ pc # "crashed"

\* the collection was cut off by an exception at wiki d of host h
CutOffAt(h, d) ==
    /\ gpc = "crashed"
    /\ this_dbhost = h
    /\ wikis_todo_left # <<>>
    /\ Head(wikis_todo_left) = d

\* the loop over the wikis of host h has been left
HostCollected(h) ==
    /\ gpc \in {"hosts", "wikis", "collected"}
    /\ ~InList(h, dbhosts_left)
    /\ ~(gpc = "wikis" /\ this_dbhost = h)

\* C13 as stated: when USE d fails with error 1049 on a reachable host h,
\* the collection goes on past (h, d), the matrix gets no entry for (h, d)
\* and h is in no group of hosts of d.
C13_UnknownDatabaseNoEntry ==
    \A h \in Range(topo.dbhosts) : \A d \in Wikis :
        (/\ ~dryrun
         /\ h \notin server.down
         /\ server.use[d] = "1049")
            => /\ ~CutOffAt(h, d)
               /\ ~HasCell(table_info_per_dbhost_wiki, h, d)
               /\ \A i \in 1..Len(grouped_dbhosts) :
                      grouped_dbhosts[i][1] = d
                          => \A j \in 1..Len(grouped_dbhosts[i][2]) :
                                 ~InList(h, grouped_dbhosts[i][2][j][2])

\* the server answers a query for cell (h, d) with an error
CellError(d) ==
    \/ server.use[d] # "ok"
    \/ server.answer.exists_error
    \/ server.answer.create_error

\* C15 as stated: when the server answers USE, SHOW TABLES LIKE or SHOW
\* CREATE TABLE for a cell of a reachable host with an error, no exception
\* leaves the collection at that cell, and once the wikis of the host are
\* done the cell holds no table.
C15_CellErrorsAbsorbed ==
    \A h \in Range(topo.dbhosts) : \A d \in Wikis :
        (/\ ~dryrun
         /\ h \notin server.down
         /\ CellError(d))
            => /\ ~CutOffAt(h, d)
               /\ HostCollected(h)
                      => \/ ~HasCell(table_info_per_dbhost_wiki, h, d)
                         \/ Cell(table_info_per_dbhost_wiki, h, d) = <<>>
                         \/ Cell(table_info_per_dbhost_wiki, h, d)
                                = OneTable(Absent)

\* C17 as stated: at most one host has an open connection; a host whose
\* connection was opened and closed again was sent USE for each of its
\* wikis; when the collection has ended, no connection is open.
C17_OneConnectionAtATime ==
    /\ Cardinality(cursors) <= 1
    /\ \A h \in Hosts :
           (/\ <<h, "SHOW VARIABLES", NoneVal>> \in queries
            /\ h \notin cursors)
               => \A d \in Range(get_wikis_for_dbhost(topo, h, wikilist)) :
                      <<h, "USE", d>> \in queries
    /\ gpc \in {"collected", "crashed"} => cursors = {}

\* C19 as stated: with dryrun no connection is opened and no query is
\* sent, no exception cuts the collection off, and when it has ended
\* every host has a cell without tables for each of its wikis.
C19_DryrunCollectsEmptyCells ==
    dryrun
        => /\ cursors = {}
           /\ queries = {}
           /\ gpc # "crashed"
           /\ gpc = "collected"
                  => \A h \in Range(topo.dbhosts) :
                         \A d \in Range(get_wikis_for_dbhost(topo, h,
                                                             wikilist)) :
                             /\ HasCell(table_info_per_dbhost_wiki, h, d)
                             /\ Cell(table_info_per_dbhost_wiki, h, d)
                                    = OneTable(Absent)

\* the option was given on the command line
Given(opt) == opt # NoneVal

\* C18 as stated: display_diffs_master_all_sects runs only when --master
\* and --main_wiki are both given, display_diffs_master_per_sect only when
\* neither is given, and with exactly one of them the program stops in
\* usage() without a connection, a query or a report.
C18_ModeByOptions ==
    /\ pc \in {"masters", "wikis", "hosts"}
           => Given(main_master) /\ Given(main_wiki)
    /\ pc = "sect_masters"
           => ~Given(main_master) /\ ~Given(main_wiki)
    /\ (gpc # "args" /\ Given(main_master) # Given(main_wiki))
           => /\ gpc = "usage"
              /\ cursors = {}
              /\ queries = {}
              /\ table_info_per_dbhost_wiki = <<>>
              /\ pc = "idle"

\* C16: until the loop over the hosts has been left, no description is
\* computed, no group is formed and nothing is diffed; when display_diffs
\* runs, no host and no wiki is left to collect, and from then on the
\* matrix is not changed.
C16_CollectionBeforeAnalysis ==
    /\ [](/\ gpc # "collected"
              => /\ table_descr_by_host_wiki = <<>>
                 /\ grouped_dbhosts = <<>>
                 /\ grouped_wikis = <<>>
                 /\ diffed = <<>>
                 /\ pc = "idle"
          /\ pc # "idle"
              => /\ gpc = "collected"
                 /\ dbhosts_left = <<>>
                 /\ wikis_todo_left = <<>>)
    /\ [][(pc # "idle" \/ table_descr_by_host_wiki # <<>>)
              => table_info_per_dbhost_wiki' = table_info_per_dbhost_wiki]_vars

C16_Witness ==
    /\ gpc = "collected"
    /\ pc = "done"
    /\ Truthy(main_master)
    /\ table_info_per_dbhost_wiki # <<>>
    /\ table_descr_by_host_wiki # <<>>
    /\ grouped_wikis # <<>>

(***************************************************************************)
(* Properties of the order and of the content of the findings.             *)
(***************************************************************************)
\* the category of a finding: 1 columns, 2 keys, 3 parameters
CategoryOf(kind) ==
    IF kind \in {"column_missing", "column_extra", "column_mismatch"} THEN 1
    ELSE IF kind \in {"key_missing", "key_extra"} THEN 2
    ELSE 3

MissingKinds == {"column_missing", "key_missing", "params_missing"}

ExtraKinds == {"column_extra", "key_extra", "params_extra"}

\* the position of x in the list l
PosIn(l, x) == CHOOSE i \in 1..Len(l) : l[i] = x

\* the names of s occur in l, in the order of l
InOrderOf(s, l) ==
    /\ \A i \in 1..Len(s) : InList(s[i], l)
    /\ \A i \in 1..Len(s) : \A j \in 1..Len(s) :
           i < j => PosIn(l, s[i]) < PosIn(l, s[j])

\* the names reported by the findings of one kind, in the order reported
NamesOfKind(out, kind) ==
    LET F[i \in 0..Len(out)] ==
            IF i = 0 THEN <<>>
            ELSE IF out[i].kind = kind THEN F[i-1] \o out[i].names
                 ELSE F[i-1]
    IN F[Len(out)]

\* C21: in the findings display_table_diffs prints for a table present on
\* both sides, column findings precede key findings and these precede
\* parameter findings; within a category every 'missing' finding precedes
\* every 'extra' finding; the names of each kind are reported in the
\* order of the columns, keys or parameter fields of the side they are
\* taken from.
C21_FindingOrder ==
    (fpc = "done" /\ BothPresent)
        => LET out == table_report.out
               m == master_table_info
               r == repl_table_info
           IN /\ \A i \in 1..Len(out) : \A j \in 1..Len(out) :
                     i < j =>
                         /\ CategoryOf(out[i].kind) <= CategoryOf(out[j].kind)
                         /\ ~(/\ CategoryOf(out[i].kind) = CategoryOf(out[j].kind)
                              /\ out[i].kind \in ExtraKinds
                              /\ out[j].kind \in MissingKinds)
              /\ InOrderOf(NamesOfKind(out, "column_missing"),
                           DictKeys(m.columns))
              /\ InOrderOf(NamesOfKind(out, "column_extra"),
                           DictKeys(r.columns))
              /\ InOrderOf(NamesOfKind(out, "key_missing"), m.keys)
              /\ InOrderOf(NamesOfKind(out, "key_extra"), r.keys)
              /\ NamesOfKind(out, "params_missing") # <<>>
                     => InOrderOf(NamesOfKind(out, "params_missing"),
                                  DictKeys(params_to_dict(m.parameters[1])))
              /\ NamesOfKind(out, "params_extra") # <<>>
                     => InOrderOf(NamesOfKind(out, "params_extra"),
                                  DictKeys(params_to_dict(r.parameters[1])))

C21_Witness ==
    /\ fpc = "done"
    /\ BothPresent
    /\ ~table_report.err
    /\ Len(NamesOfKind(table_report.out, "key_missing")) = 2
    /\ NamesOfKind(table_report.out, "params_missing") # <<>>
    /\ Len(table_report.out) = 3

\* the columns of m, in its order, that r has with another property text
ColumnsDiffering(m, r) ==
    SelectSeq(DictKeys(m.columns),
              LAMBDA c : /\ DictHas(r.columns, c)
                         /\ DictGet(m.columns, c) # DictGet(r.columns, c))

\* the findings of one kind
FindingsOfKind(out, kind) == SelectSeq(out, LAMBDA f : f.kind = kind)

\* C22 as stated: display_column_diffs prints one 'mismatch', for the
\* last column in the master's order that both sides have with different
\* property texts, and none if no column on both sides differs.
C22_MismatchForLastDiffering ==
    (ColumnsDone /\ BothPresent)
        => LET differing == ColumnsDiffering(master_table_info, repl_table_info)
               last == differing[Len(differing)]
           IN FindingsOfKind(column_report.out, "column_mismatch")
                  = IF differing = <<>> THEN <<>>
                    ELSE <<Finding("column_mismatch", <<last>>,
                                   <<<<DictGet(repl_table_info.columns, last)>>>>)>>

\* both tables were collected with a parameter line
BothHaveParameters ==
    /\ BothPresent
    /\ master_table_info.parameters # <<>>
    /\ repl_table_info.parameters # <<>>

\* the fields of the parameter line of a that the line of b does not have
FieldsOnlyIn(a, b) ==
    SelectSeq(DictKeys(params_to_dict(a.parameters[1])),
              LAMBDA f : ~DictHas(params_to_dict(b.parameters[1]), f))

NotIgnored(fields) == SelectSeq(fields, LAMBDA f : ~InList(f, params_ignore))

\* C23 as stated, for display_parameter_diffs of runqueries: when the
\* parameter lines differ, every field of the master's line that the
\* replica's line lacks is reported missing and every field of the
\* replica's line that the master's lacks is reported extra, ignored or
\* not; when the lines are equal nothing is reported.
C23_Original ==
    (ParametersDone /\ BothHaveParameters)
        => LET out == parameter_report.runqueries.out
           IN IF master_table_info.parameters[1]
                     = repl_table_info.parameters[1]
              THEN out = <<>>
              ELSE /\ NamesOfKind(out, "params_missing")
                          = FieldsOnlyIn(master_table_info, repl_table_info)
                   /\ NamesOfKind(out, "params_extra")
                          = FieldsOnlyIn(repl_table_info, master_table_info)

\* C23 amended: when the parameter lines differ, display_parameter_diffs
\* of runqueries reports missing the fields of the master's line that the
\* replica's line lacks and that are not in params_ignore, reports extra
\* the fields of the replica's line that the master's lacks and that are
\* not in params_ignore, and reports no value difference of a field in
\* params_ignore; display_parameter_diffs of checktables reports every
\* field that one line lacks, ignored or not, and no value difference of
\* an ignored field; when the lines are equal neither reports anything.
C23_IgnoredFieldsPassedOver ==
    (ParametersDone /\ BothHaveParameters)
        => LET out == parameter_report.runqueries.out
               old == parameter_report.checktables.out
           IN IF master_table_info.parameters[1]
                     = repl_table_info.parameters[1]
              THEN out = <<>> /\ old = <<>>
              ELSE /\ NamesOfKind(out, "params_missing")
                          = NotIgnored(FieldsOnlyIn(master_table_info,
                                                    repl_table_info))
                   /\ NamesOfKind(out, "params_extra")
                          = NotIgnored(FieldsOnlyIn(repl_table_info,
                                                    master_table_info))
                   /\ \A f \in Range(NamesOfKind(out, "param_diffs")) :
                          ~InList(f, params_ignore)
                   /\ NamesOfKind(old, "params_missing")
                          = FieldsOnlyIn(master_table_info, repl_table_info)
                   /\ NamesOfKind(old, "params_extra")
                          = FieldsOnlyIn(repl_table_info, master_table_info)
                   /\ \A f \in Range(NamesOfKind(old, "param_diffs")) :
                          ~InList(f, ignore_checktables)

C23_Witness ==
    /\ ParametersDone
    /\ BothHaveParameters
    /\ NamesOfKind(parameter_report.runqueries.out, "params_missing")
           = <<"ROW_FORMAT">>
    /\ InList("AUTO_INCREMENT",
              FieldsOnlyIn(repl_table_info, master_table_info))
    /\ NamesOfKind(parameter_report.runqueries.out, "params_extra") = <<>>
    /\ NamesOfKind(parameter_report.checktables.out, "params_extra")
           = <<"AUTO_INCREMENT">>

(***************************************************************************)
(* Properties of the report loops: groups, done lists and masters.         *)
(***************************************************************************)
\* the groups of hosts as get_grouped_dbhosts returns them in the loop
\* that is running
HostGroupsReturned ==
    IF Truthy(main_master)
    THEN get_grouped_dbhosts(table_descr_by_host_wiki, <<>>, NoneVal)
    ELSE get_grouped_dbhosts(table_descr_by_host_wiki,
                             get_dbhosts_for_wiki(topo, wiki), wiki)

\* C24 as stated: once computed, the groups of hosts and the groups of
\* wikis are as get_grouped_dbhosts and get_grouped_wikis returned them,
\* every collected wiki of a host is in exactly one group of that host,
\* and the descriptions are those of the unchanged matrix.
C24_GroupsReadOnly ==
    /\ grouped_dbhosts # <<>> => grouped_dbhosts = HostGroupsReturned
    /\ grouped_wikis # <<>>
           => /\ grouped_wikis = get_grouped_wikis(table_descr_by_host_wiki)
              /\ \A h \in Hosts : \A d \in Wikis :
                     HasCell(table_descr_by_host_wiki, h, d)
                         => Occurrences(DictGet(grouped_wikis, h), d) = 1
    /\ table_descr_by_host_wiki =
           flatten_table_info(table_info_per_dbhost_wiki, params_ignore)

\* the run is display_diffs_master_per_sect on a configuration with
\* sections
PerSect == ~Truthy(main_master) /\ topo.dbhosts_by_section # <<>>

\* wiki d of host r was diffed, or r has for d the description of a host
\* that was diffed for d
CoveredFor(r, d) ==
    \E i \in 1..Len(diffed) :
        /\ diffed[i].wiki = d
        /\ Cell(table_descr_by_host_wiki, diffed[i].dbhost, d)
               = Cell(table_descr_by_host_wiki, r, d)

C26_BaselineIsFirstOfSection ==
    PerSect
        => /\ (section_master # NoneVal /\ wiki # NoneVal)
                  => section_master = get_dbhosts_for_wiki(topo, wiki)[1]
           /\ \A i \in 1..Len(diffed) :
                  diffed[i].master
                      = get_dbhosts_for_wiki(topo, diffed[i].wiki)[1]


\* the server has the table and answers SHOW CREATE TABLE with a CREATE
\* TABLE statement
WellFormed(answer) ==
    /\ ~answer.exists_error
    /\ answer.exists_rows # <<>>
    /\ ~answer.create_error
    /\ answer.create_rows # <<>>
    /\ answer.create_rows[1][2][1].kind = "create_table"

\* a table info with no column, no key or no parameter line
LacksCategory(info) ==
    info.columns = <<>> \/ info.keys = <<>> \/ info.parameters = <<>>

\* C27 as stated: a table the server has, whose statement has no column
\* lines, no key lines or no parameter line, gets a present table info;
\* its description is computed without error, its diff against itself or
\* against another present table completes without error, and it is
\* reported neither missing on master nor missing on replica.
C27_EmptyCategoriesPresent ==
    (~dryrun /\ fpc # "answers"
        /\ WellFormed(sql_results[1]) /\ WellFormed(sql_results[2])
        /\ LacksCategory(repl_table_info))
        => /\ BothPresent
           /\ FlattenDone => ~table_descr[2].err
           /\ fpc = "done"
                  => /\ ~table_report.err
                     /\ \A i \in 1..Len(table_report.out) :
                            table_report.out[i].kind
                                \notin {"missing_on_master",
                                        "missing_on_replica"}


\* the two tables have descriptions, and the descriptions are equal
EqualDescrs ==
    /\ ~table_descr[1].err
    /\ ~table_descr[2].err
    /\ table_descr[1] = table_descr[2]

\* C28: when two tables have equal descriptions, display_table_diffs of one
\* against the other prints no finding (it raises, without a finding, only
\* when both are present and neither has a column), and display_table_diffs
\* of either of them against one and the same baseline table prints the
\* same set of findings and raises for both or for neither.
C28_EqualDescrsSameFindings ==
    (fpc = "done" /\ EqualDescrs)
        => /\ table_report.out = <<>>
           /\ table_report.err
                  <=> (BothPresent /\ master_table_info.columns = <<>>)
           /\ \A baseline \in TableInfos :
                  LET one   == display_table_diffs(baseline, master_table_info)
                      other == display_table_diffs(baseline, repl_table_info)
                  IN /\ Range(one.out) = Range(other.out)
                     /\ one.err = other.err

\* equal descriptions of two present tables whose infos differ in the
\* order of the columns and in an ignored parameter, and a baseline against
\* which they have findings
C28_Witness ==
    /\ fpc = "done"
    /\ EqualDescrs
    /\ BothPresent
    /\ DictKeys(master_table_info.columns) # DictKeys(repl_table_info.columns)
    /\ master_table_info.parameters # repl_table_info.parameters
    /\ table_report = [out |-> <<>>, err |-> FALSE]
    /\ \E baseline \in TableInfos :
           /\ baseline.present
           /\ display_table_diffs(baseline, repl_table_info).out # <<>>
           /\ ~display_table_diffs(baseline, repl_table_info).err


\* C29 as stated: when display_table_diffs of a present table against a
\* present baseline table completes and prints no finding, the two tables
\* have equal descriptions.
C29_EmptyDiffEqualDescrs ==
    (fpc = "done" /\ BothPresent
        /\ table_report = [out |-> <<>>, err |-> FALSE])
        => EqualDescrs


(***************************************************************************)
(* Properties of the SHOW EXPLAIN tool (SpecExplain).                      *)
(***************************************************************************)
\* the names of the steps taken for iteration idx, in order
StepsOf(idx) ==
    LET mine == SelectSeq(steps, LAMBDA s : s.idx = idx)
    IN [k \in 1..Len(mine) |-> mine[k].step]

IsPrefix(s, t) == Len(s) <= Len(t) /\ \A k \in 1..Len(s) : s[k] = t[k]

\* for every query the main thread starts the worker thread, then sends
\* SHOW EXPLAIN, then KILL, then checks the process list
StepsInOrder ==
    \A idx \in 1..Len(run_order) :
        \/ IsPrefix(StepsOf(idx), <<"start", "explain", "kill", "check">>)
        \/ StepsOf(idx) = <<"start", "explain", "kill", "check_failed">>

\* a worker thread is started only when every worker thread started
\* before it has ended
OneWorkerAtATime ==
    \A i \in 1..Len(workers) - 1 : workers[i] = "finished"

\* a check that failed, or that was made while the server still listed
\* the thread, is the last step of the run and the run is aborted
StillListedAborts ==
    \A k \in 1..Len(steps) :
        (steps[k].step = "check_failed"
            \/ (steps[k].step = "check" /\ steps[k].listed))
            => xpc = "aborted" /\ k = Len(steps)

\* C30 as stated: for each query the steps are start of the worker thread,
\* SHOW EXPLAIN, KILL, check, in this order; the next query is started only
\* after the worker thread has ended; and when the check fails or finds
\* the thread still listed the run aborts and no further query is started.
C30_ExplainKillVerify ==
    ~dryrun => StepsInOrder /\ OneWorkerAtATime /\ StillListedAborts

====
